---- MODULE Spec2Model ----
(***************************************************************************)
(* A model of the QR scanner core of prismio-simplified:                   *)
(*   - lib/scan-preprocessing.ts : the bitmap filters and processImage,    *)
(*     the loop that tries the seven strategies against the jsQR decoder;  *)
(*   - lib/scan-content-utils.ts : detectContentType and parseContent;     *)
(*   - components/scanner/scan-scanner.tsx : the scanner component, with   *)
(*     validateFile of lib/scan-preprocessing.ts.                          *)
(* Strings are sequences of one-character strings; a bitmap is a record    *)
(* [width, height, data] whose data is the RGBA byte sequence (the byte    *)
(* at index i of the source's array is data[i+1]).                         *)
(***************************************************************************)
EXTENDS Integers, Sequences, FiniteSets, TLC

(***************************************************************************)
(* Bounds of the model.                                                    *)
(***************************************************************************)
\* width and height of the source bitmaps processImage is run on
ImgW == 3
ImgH == 3
\* how many pieces a decoded text is made of at most
MaxPieces == 3
\* how often detectContentType is called on one text
MaxCalls == 2
\* how many lines a contact card has at most between BEGIN and END
MaxLines == 3

\* width and height of the bitmaps a filter is called on by itself
FilterW == 4
FilterH == 4
\* how often a filter is called in a row, each time on what it last returned
MaxPasses == 2

VARIABLES
    pc,             \* processImage: position in the function
    ctx,            \* processImage: canvas.getContext('2d') is non-null
    strategyIdx,    \* processImage: index (1..7) of the loop's current strategy
    imageData,      \* processImage: the source bitmap object (the argument)
    original,       \* history: the source bitmap as it was when processImage began
    processedData,  \* processImage: the bitmap strategy.fn returned
    decoderInput,   \* history: the last [strategy, bitmap] handed to jsQR
    reported,       \* history: the onProgress calls, in order
    noResult,       \* history: the strategies that ended without a result
    faulted,        \* history: the strategies in which something threw
    thrower,        \* history: what threw in the turn the catch block is handling
    legible,        \* environment: the bitmaps jsQR finds a code in
    outcome,        \* processImage: pending, rejected, null or a QRResult
    decodedText,    \* the decoded text given to detectContentType / parseContent
    tags,           \* what the calls of detectContentType(decodedText) returned
    parsed,         \* what the calls of parseContent(decodedText) returned
    contacts,       \* what the calls of parseVCard(decodedText) returned
    source,         \* filters: the bitmap a filter is called on
    filterFn,       \* filters: the name of the filter that was called
    outputs,        \* filters: what the filter returned, then what it
                    \* returned when called on its own output
    scannerState,   \* scanner: the component's state (a ScannerState)
    task,           \* scanner: where the pending startScanning call stands
    offered,        \* history: the file of the last loadFile call
    handed          \* history: the file of the last processImage call

pipelineVars == <<pc, ctx, strategyIdx, imageData, original, processedData,
                  decoderInput, reported, noResult, faulted, thrower, legible,
                  outcome>>

contentVars == <<decodedText, tags, parsed, contacts>>

filterVars == <<source, filterFn, outputs>>

scannerVars == <<scannerState, task, offered, handed>>

vars == <<pipelineVars, contentVars, filterVars, scannerVars>>

\* the variables processImage does not touch
notPipelineVars == <<contentVars, filterVars, scannerVars>>

\* the variables the content utilities do not touch
notContentVars == <<pipelineVars, filterVars, scannerVars>>

\* the variables a filter call does not touch
notFilterVars == <<pipelineVars, contentVars, scannerVars>>

\* the variables the scanner component does not touch
notScannerVars == <<pipelineVars, contentVars, filterVars>>

(***************************************************************************)
(* Arithmetic of the filters.                                              *)
(***************************************************************************)
Min2(a, b) == IF a < b THEN a ELSE b

\* Math.min(255, Math.max(0, v)) on an integer v
Clamp255(v) == IF v < 0 THEN 0 ELSE IF v > 255 THEN 255 ELSE v

\* Math.round(0.299 * r + 0.587 * g + 0.114 * b): round half up
Luma(r, g, b) == (299 * r + 587 * g + 114 * b + 500) \div 1000

\* factor = (259 * (1.5 + 255)) / (255 * (259 - 1.5)) = 132867 / 131325
ContrastNum == 132867
ContrastDen == 131325

\* data[i] = Math.min(255, Math.max(0, factor * (d - 128) + 128)), stored in a
\* Uint8ClampedArray (round to nearest; no value of d lands on a tie)
ContrastByte(d) ==
    LET n == ContrastNum * (d - 128) + 128 * ContrastDen
    IN  IF n <= 0 THEN 0
        ELSE Clamp255((2 * n + ContrastDen) \div (2 * ContrastDen))

\* i (1-based) is the position of an alpha byte
IsAlpha(i) == i % 4 = 0

\* 1-based position of the red byte of pixel (x, y): idx = (y * width + x) * 4
Idx(img, x, y) == (y * img.width + x) * 4 + 1

\* the luma of the pixel whose red byte is at position p of data
LumaAt(data, p) == Luma(data[p], data[p + 1], data[p + 2])

\* red-byte position of the pixel a byte position i belongs to
PixelOf(i) == ((i - 1) \div 4) * 4 + 1

(***************************************************************************)
(* preprocessingStrategies: each filter copies imageData.data              *)
(* (new Uint8ClampedArray(imageData.data)), rewrites the copy and returns  *)
(* it in a new ImageData of the same width and height.                     *)
(***************************************************************************)
enhancedContrast(img) ==
    [img EXCEPT !.data = [i \in 1..Len(img.data) |->
        IF IsAlpha(i) THEN img.data[i] ELSE ContrastByte(img.data[i])]]

adaptiveHistogram(img) ==
    [img EXCEPT !.data = [i \in 1..Len(img.data) |->
        IF IsAlpha(i) THEN img.data[i] ELSE LumaAt(img.data, PixelOf(i))]]

RECURSIVE SumLuma(_, _)
\* sum of gray over the pixels whose red bytes are at p, p+4, ...
SumLuma(data, p) ==
    IF p > Len(data) THEN 0 ELSE LumaAt(data, p) + SumLuma(data, p + 4)

\* a threshold that takes a pixel at the mean for a bright one
binaryThresholdAtLeast(img) ==
    LET data   == img.data
        pixels == Len(data) \div 4
        sum    == SumLuma(data, 1)
        Above(p) == LumaAt(data, p) * pixels >= sum
    IN  [img EXCEPT !.data = [i \in 1..Len(data) |->
            IF IsAlpha(i) THEN data[i]
            ELSE IF Above(PixelOf(i)) THEN 255 ELSE 0]]

binaryThreshold(img) ==
    LET data   == img.data
        pixels == Len(data) \div 4
        sum    == SumLuma(data, 1)
        \* gray > threshold, threshold = sum / pixels
        Above(p) == LumaAt(data, p) * pixels > sum
    IN  [img EXCEPT !.data = [i \in 1..Len(data) |->
            IF IsAlpha(i) THEN data[i]
            ELSE IF Above(PixelOf(i)) THEN 255 ELSE 0]]

\* the interior pixels in the order the two nested loops visit them
Interior(img) ==
    [n \in 1..((IF img.width > 2 THEN img.width - 2 ELSE 0) *
               (IF img.height > 2 THEN img.height - 2 ELSE 0)) |->
        [x |-> 1 + ((n - 1) % (img.width - 2)),
         y |-> 1 + ((n - 1) \div (img.width - 2))]]

\* kernel = [-1,-1,-1,-1,9,-1,-1,-1,-1]
Kernel(ky, kx) == IF ky = 0 /\ kx = 0 THEN 9 ELSE -1

\* the kernel sum of channel c (0..2) at pixel (x, y), read from data
Convolve(img, data, x, y, c) ==
    LET Term(ky, kx) == data[Idx(img, x + kx, y + ky) + c] * Kernel(ky, kx)
    IN  Term(-1, -1) + Term(-1, 0) + Term(-1, 1)
      + Term(0, -1)  + Term(0, 0)  + Term(0, 1)
      + Term(1, -1)  + Term(1, 0)  + Term(1, 1)

RECURSIVE SharpenFrom(_, _, _)
\* the loop over the interior pixels from the n-th on: it reads and writes
\* the same array, data
SharpenFrom(img, data, n) ==
    IF n > Len(Interior(img)) THEN data
    ELSE LET x   == Interior(img)[n].x
             y   == Interior(img)[n].y
             idx == Idx(img, x, y)
             new == [data EXCEPT
                        ![idx]     = Clamp255(Convolve(img, data, x, y, 0)),
                        ![idx + 1] = Clamp255(Convolve(img, data, x, y, 1)),
                        ![idx + 2] = Clamp255(Convolve(img, data, x, y, 2))]
         IN  SharpenFrom(img, new, n + 1)

IsInterior(img, x, y) ==
    /\ x >= 1 /\ x < img.width - 1
    /\ y >= 1 /\ y < img.height - 1

\* a convolution that reads the input bitmap for every pixel
sharpeningFromSnapshot(img) ==
    LET X(i) == ((i - 1) \div 4) % img.width
        Y(i) == ((i - 1) \div 4) \div img.width
    IN  [img EXCEPT !.data = [i \in 1..Len(img.data) |->
            IF IsAlpha(i) \/ ~IsInterior(img, X(i), Y(i)) THEN img.data[i]
            ELSE Clamp255(Convolve(img, img.data, X(i), Y(i), (i - 1) % 4))]]

sharpening(img) == [img EXCEPT !.data = SharpenFrom(img, img.data, 1)]

\* a filter that inverts the alpha byte too
colorInversionAllBytes(img) ==
    [img EXCEPT !.data = [i \in 1..Len(img.data) |-> 255 - img.data[i]]]

colorInversion(img) ==
    [img EXCEPT !.data = [i \in 1..Len(img.data) |->
        IF IsAlpha(i) THEN img.data[i] ELSE 255 - img.data[i]]]

\* minVal over the 3x3 neighbourhood of (x, y), gray read from temp
MinLuma(img, temp, x, y) ==
    LET G(dy, dx) == LumaAt(temp, Idx(img, x + dx, y + dy))
    IN  Min2(255, Min2(G(-1, -1), Min2(G(-1, 0), Min2(G(-1, 1),
        Min2(G(0, -1), Min2(G(0, 0), Min2(G(0, 1),
        Min2(G(1, -1), Min2(G(1, 0), G(1, 1))))))))))

RECURSIVE ErodeInPlaceFrom(_, _, _)
\* the loop over the interior pixels from the n-th on, reading the array it
\* writes
ErodeInPlaceFrom(img, data, n) ==
    IF n > Len(Interior(img)) THEN data
    ELSE LET x   == Interior(img)[n].x
             y   == Interior(img)[n].y
             idx == Idx(img, x, y)
             min == MinLuma(img, data, x, y)
         IN  ErodeInPlaceFrom(img,
                 [data EXCEPT ![idx] = min, ![idx + 1] = min, ![idx + 2] = min],
                 n + 1)

\* an erosion without the snapshot temp
morphologicalInPlace(img) ==
    [img EXCEPT !.data = ErodeInPlaceFrom(img, img.data, 1)]

morphological(img) ==
    LET temp == img.data
        X(i) == ((i - 1) \div 4) % img.width
        Y(i) == ((i - 1) \div 4) \div img.width
    IN  [img EXCEPT !.data = [i \in 1..Len(temp) |->
            IF IsAlpha(i) \/ ~IsInterior(img, X(i), Y(i)) THEN temp[i]
            ELSE MinLuma(img, temp, X(i), Y(i))]]

(***************************************************************************)
(* processingStrategies and the call strategy.fn(imageData).               *)
(***************************************************************************)
\* the list with Binary Threshold and Sharpening in each other's place
strategiesReordered ==
    << [name |-> "Direct Detection",   progress |-> 65, fn |-> "identity"],
       [name |-> "Enhanced Contrast",  progress |-> 70, fn |-> "enhancedContrast"],
       [name |-> "Adaptive Histogram", progress |-> 75, fn |-> "adaptiveHistogram"],
       [name |-> "Sharpening",         progress |-> 85, fn |-> "sharpening"],
       [name |-> "Binary Threshold",   progress |-> 80, fn |-> "binaryThreshold"],
       [name |-> "Color Inversion",    progress |-> 90, fn |-> "colorInversion"],
       [name |-> "Morphological",      progress |-> 95, fn |-> "morphological"] >>

\* the list with the progress of Sharpening mistyped as 58
strategiesProgressTypo ==
    << [name |-> "Direct Detection",   progress |-> 65, fn |-> "identity"],
       [name |-> "Enhanced Contrast",  progress |-> 70, fn |-> "enhancedContrast"],
       [name |-> "Adaptive Histogram", progress |-> 75, fn |-> "adaptiveHistogram"],
       [name |-> "Binary Threshold",   progress |-> 80, fn |-> "binaryThreshold"],
       [name |-> "Sharpening",         progress |-> 58, fn |-> "sharpening"],
       [name |-> "Color Inversion",    progress |-> 90, fn |-> "colorInversion"],
       [name |-> "Morphological",      progress |-> 95, fn |-> "morphological"] >>

processingStrategies ==
    << [name |-> "Direct Detection",   progress |-> 65, fn |-> "identity"],
       [name |-> "Enhanced Contrast",  progress |-> 70, fn |-> "enhancedContrast"],
       [name |-> "Adaptive Histogram", progress |-> 75, fn |-> "adaptiveHistogram"],
       [name |-> "Binary Threshold",   progress |-> 80, fn |-> "binaryThreshold"],
       [name |-> "Sharpening",         progress |-> 85, fn |-> "sharpening"],
       [name |-> "Color Inversion",    progress |-> 90, fn |-> "colorInversion"],
       [name |-> "Morphological",      progress |-> 95, fn |-> "morphological"] >>

NumStrategies == Len(processingStrategies)

\* the bitmap the filter named fn returns for img
StrategyFn(fn, img) ==
    CASE fn = "identity"          -> img
      [] fn = "enhancedContrast"  -> enhancedContrast(img)
      [] fn = "adaptiveHistogram" -> adaptiveHistogram(img)
      [] fn = "binaryThreshold"   -> binaryThreshold(img)
      [] fn = "sharpening"        -> sharpening(img)
      [] fn = "colorInversion"    -> colorInversion(img)
      [] fn = "morphological"     -> morphological(img)

\* a filter that rewrote the array it was given instead of a copy of it
ApplyInPlace(fn, img) ==
    [input |-> StrategyFn(fn, img), output |-> StrategyFn(fn, img)]

\* the call strategy.fn(imageData): what it returns and what it leaves in
\* its argument (every filter writes to a copy only)
Apply(fn, img) ==
    [input |-> img, output |-> StrategyFn(fn, img)]

\* no bitmap yet (processedData before the first filter has returned)
NoBitmap == [width |-> 0, height |-> 0, data |-> << >>]

\* the null a call returns in place of a QRResult
NoResult == [found |-> FALSE, data |-> "", location |-> ""]

\* what processImage has come to: still running, rejected (it threw), or
\* resolved to null or to a QRResult
Pending  == [kind |-> "pending",  data |-> "", location |-> ""]
Rejected == [kind |-> "rejected", data |-> "", location |-> ""]
Null     == [kind |-> "null",     data |-> "", location |-> ""]
Found(result) ==
    [kind |-> "result", data |-> result.data, location |-> result.location]

\* jsQR(data, width, height): a QRResult when the bitmap is legible, else null
jsQR(bitmap, readable) ==
    IF bitmap \in readable
    THEN [found |-> TRUE, data |-> "payload", location |-> "corners"]
    ELSE NoResult

(***************************************************************************)
(* The source bitmaps processImage is run on.                              *)
(***************************************************************************)
Black == <<0, 0, 0, 255>>
White == <<255, 255, 255, 255>>
Red   == <<200, 30, 60, 128>>
Grey  == <<120, 120, 120, 255>>

\* the bitmap whose pixel (x, y) has colour fg where On(x, y), else bg
Patterns == {"uniform", "centre", "checker", "columns", "corner"}

On(pattern, x, y) ==
    CASE pattern = "uniform" -> FALSE
      [] pattern = "centre"  -> x = 1 /\ y = 1
      [] pattern = "checker" -> (x + y) % 2 = 0
      [] pattern = "columns" -> x % 2 = 1
      [] pattern = "corner"  -> x = 0 /\ y = 0

MkBitmap(w, h, pattern, fg, bg) ==
    [width |-> w, height |-> h,
     data |-> [i \in 1..(w * h * 4) |->
        LET p == (i - 1) \div 4
            c == ((i - 1) % 4) + 1
        IN  IF On(pattern, p % w, p \div w) THEN fg[c] ELSE bg[c]]]

PipelineSources ==
    { MkBitmap(ImgW, ImgH, "centre", Black, White),
      MkBitmap(ImgW, ImgH, "checker", Red, Grey),
      MkBitmap(ImgW, ImgH, "columns", Grey, White) }

\* the bitmaps the seven strategies make of src
Candidates(src) ==
    { StrategyFn(processingStrategies[k].fn, src) : k \in 1..NumStrategies }

(***************************************************************************)
(* The scanner component's state (components/scanner/scan-scanner.tsx). A  *)
(* field that may be null holds << >> for null and <<v>> for the value v.  *)
(***************************************************************************)
\* the argument of useState, which resetState sets again
initialState ==
    [stage           |-> "upload",
     progress        |-> 0,
     currentStrategy |-> "",
     result          |-> << >>,
     error           |-> << >>,
     loadedFile      |-> << >>,
     imagePreview    |-> << >>]

\* no startScanning call is pending
NoTask == [pc |-> "idle", file |-> << >>, idx |-> 0, qrResult |-> << >>]

(***************************************************************************)
(* processImage.                                                           *)
(***************************************************************************)
InitPipeline ==
    /\ pc = "call"
    /\ ctx \in BOOLEAN
    /\ strategyIdx = 0
    /\ imageData \in PipelineSources
    /\ original = imageData
    /\ processedData = NoBitmap
    /\ decoderInput = [strategy |-> 0, bitmap |-> NoBitmap]
    /\ reported = << >>
    /\ noResult = {}
    /\ faulted = {}
    /\ thrower = "none"
    /\ legible \in SUBSET Candidates(imageData)
    /\ outcome = Pending
    \* the content utilities are idle
    /\ decodedText = << >>
    /\ tags = << >>
    /\ parsed = << >>
    /\ contacts = << >>
    \* no filter is called on its own
    /\ source = NoBitmap
    /\ filterFn = "none"
    /\ outputs = << >>
    \* the scanner component shows its upload screen
    /\ scannerState = initialState
    /\ task = NoTask
    /\ offered = << >>
    /\ handed = << >>

\* a loop that throws when the list is exhausted instead of returning null
NextStrategyThrows ==
    IF strategyIdx < NumStrategies
    THEN /\ strategyIdx' = strategyIdx + 1
         /\ pc' = "report"
         /\ outcome' = outcome
    ELSE /\ strategyIdx' = strategyIdx
         /\ pc' = "done"
         /\ outcome' = Rejected

\* the loop goes on with the strategy after the current one, or ends
NextStrategy ==
    IF strategyIdx < NumStrategies
    THEN /\ strategyIdx' = strategyIdx + 1
         /\ pc' = "report"
         /\ outcome' = outcome
    ELSE /\ strategyIdx' = strategyIdx
         /\ pc' = "done"
         /\ outcome' = Null

\* const ctx = canvas.getContext('2d'); if (!ctx) throw ...
Enter ==
    /\ pc = "call"
    /\ IF ctx
       THEN /\ pc' = "report"
            /\ strategyIdx' = 1
            /\ outcome' = outcome
       ELSE /\ pc' = "done"
            /\ strategyIdx' = strategyIdx
            /\ outcome' = Rejected
    /\ UNCHANGED <<ctx, imageData, original, processedData, decoderInput,
                   reported, noResult, faulted, thrower, legible,
                   notPipelineVars>>

\* a progress report made outside the try block: its throw ends the call
ReportFaultEscapes ==
    /\ pc = "report"
    /\ reported' = Append(reported,
                      [progress |-> processingStrategies[strategyIdx].progress,
                       strategy |-> processingStrategies[strategyIdx].name])
    /\ \E throws \in BOOLEAN :
          IF throws
          THEN /\ pc' = "done"
               /\ faulted' = faulted \cup {strategyIdx}
               /\ thrower' = "onProgress"
               /\ outcome' = Rejected
          ELSE /\ pc' = "filter"
               /\ faulted' = faulted
               /\ thrower' = thrower
               /\ outcome' = outcome
    /\ UNCHANGED <<ctx, strategyIdx, imageData, original, processedData,
                   decoderInput, noResult, legible, notPipelineVars>>

\* onProgress(strategy.progress, strategy.name), which returns or throws
Report ==
    /\ pc = "report"
    /\ reported' = Append(reported,
                      [progress |-> processingStrategies[strategyIdx].progress,
                       strategy |-> processingStrategies[strategyIdx].name])
    /\ \E throws \in BOOLEAN :
          IF throws
          THEN /\ pc' = "catch"
               /\ faulted' = faulted \cup {strategyIdx}
               /\ thrower' = "onProgress"
          ELSE /\ pc' = "filter"
               /\ faulted' = faulted
               /\ thrower' = thrower
    /\ UNCHANGED <<ctx, strategyIdx, imageData, original, processedData,
                   decoderInput, noResult, legible, outcome, notPipelineVars>>

\* const processedData = strategy.fn(imageData), which returns or throws
Filter ==
    /\ pc = "filter"
    /\ \E throws \in BOOLEAN :
          IF throws
          THEN /\ pc' = "catch"
               /\ faulted' = faulted \cup {strategyIdx}
               /\ thrower' = "fn"
               /\ UNCHANGED <<imageData, processedData>>
          ELSE LET r == Apply(processingStrategies[strategyIdx].fn, imageData)
               IN  /\ pc' = "decode"
                   /\ faulted' = faulted
                   /\ thrower' = thrower
                   /\ imageData' = r.input
                   /\ processedData' = r.output
    /\ UNCHANGED <<ctx, strategyIdx, original, decoderInput, reported,
                   noResult, legible, outcome, notPipelineVars>>

\* a loop that remembers a result and goes on to the next strategy
DecodeKeepsGoing ==
    /\ pc = "decode"
    /\ decoderInput' = [strategy |-> strategyIdx, bitmap |-> processedData]
    /\ \E throws \in BOOLEAN :
          IF throws
          THEN /\ pc' = "catch"
               /\ faulted' = faulted \cup {strategyIdx}
               /\ thrower' = "jsQR"
               /\ outcome' = outcome
          ELSE LET result == jsQR(processedData, legible)
               IN  /\ faulted' = faulted
                   /\ thrower' = thrower
                   /\ pc' = "sleep"
                   /\ outcome' = IF result.found THEN Found(result) ELSE outcome
    /\ UNCHANGED <<ctx, strategyIdx, imageData, original, processedData,
                   reported, noResult, legible, notPipelineVars>>

\* const result = jsQR(processedData.data, ...); if (result) return {...}
Decode ==
    /\ pc = "decode"
    /\ decoderInput' = [strategy |-> strategyIdx, bitmap |-> processedData]
    /\ \E throws \in BOOLEAN :
          IF throws
          THEN /\ pc' = "catch"
               /\ faulted' = faulted \cup {strategyIdx}
               /\ thrower' = "jsQR"
               /\ outcome' = outcome
          ELSE LET result == jsQR(processedData, legible)
               IN  /\ faulted' = faulted
                   /\ thrower' = thrower
                   /\ IF result.found
                      THEN /\ pc' = "done"
                           /\ outcome' = Found(result)
                      ELSE /\ pc' = "sleep"
                           /\ outcome' = outcome
    /\ UNCHANGED <<ctx, strategyIdx, imageData, original, processedData,
                   reported, noResult, legible, notPipelineVars>>

\* await new Promise(resolve => setTimeout(resolve, 50)), then the next turn
Sleep ==
    /\ pc = "sleep"
    /\ noResult' = noResult \cup {strategyIdx}
    /\ NextStrategy
    /\ UNCHANGED <<ctx, imageData, original, processedData, decoderInput,
                   reported, faulted, thrower, legible, notPipelineVars>>

\* a catch block that throws the error on
CatchRethrows ==
    /\ pc = "catch"
    /\ noResult' = noResult \cup {strategyIdx}
    /\ thrower' = "none"
    /\ pc' = "done"
    /\ outcome' = Rejected
    /\ UNCHANGED <<ctx, strategyIdx, imageData, original, processedData,
                   decoderInput, reported, faulted, legible, notPipelineVars>>

\* catch (error) { console.warn(...); continue; }
Catch ==
    /\ pc = "catch"
    /\ noResult' = noResult \cup {strategyIdx}
    /\ thrower' = "none"
    /\ NextStrategy
    /\ UNCHANGED <<ctx, imageData, original, processedData, decoderInput,
                   reported, faulted, legible, notPipelineVars>>

processImage == Enter \/ Report \/ Filter \/ Decode \/ Sleep \/ Catch

NextPipeline == processImage

(***************************************************************************)
(* Strings: a string is the sequence of its characters.                    *)
(***************************************************************************)
UpperChars ==
    <<"A", "B", "C", "D", "E", "F", "G", "H", "I", "J", "K", "L", "M",
      "N", "O", "P", "Q", "R", "S", "T", "U", "V", "W", "X", "Y", "Z">>
LowerChars ==
    <<"a", "b", "c", "d", "e", "f", "g", "h", "i", "j", "k", "l", "m",
      "n", "o", "p", "q", "r", "s", "t", "u", "v", "w", "x", "y", "z">>
DigitChars == <<"0", "1", "2", "3", "4", "5", "6", "7", "8", "9">>

Range(f) == {f[i] : i \in DOMAIN f}

IsUpper(c)  == c \in Range(UpperChars)
IsLetter(c) == c \in Range(UpperChars) \cup Range(LowerChars)   \* [a-zA-Z]
IsDigit(c)  == c \in Range(DigitChars)                          \* \d
IsAlnum(c)  == IsLetter(c) \/ IsDigit(c)                        \* [a-zA-Z0-9]
IsSpace(c)  == c \in {" ", "\t", "\n", "\r"}                    \* \s

\* c.toLowerCase()
LowerChar(c) ==
    IF IsUpper(c)
    THEN LowerChars[CHOOSE i \in 1..26 : UpperChars[i] = c]
    ELSE c

\* s.toLowerCase()
ToLowerCase(s) == [i \in 1..Len(s) |-> LowerChar(s[i])]

\* s.substring(from) with from counted from 0
Substring(s, from) == SubSeq(s, from + 1, Len(s))

\* s.startsWith(p)
StartsWith(s, p) == Len(s) >= Len(p) /\ SubSeq(s, 1, Len(p)) = p

\* p occurs in s at position i (1-based)
OccursAt(s, p, i) == i + Len(p) - 1 <= Len(s) /\ SubSeq(s, i, i + Len(p) - 1) = p

\* s.includes(p)
Includes(s, p) == \E i \in 1..(Len(s) + 1) : OccursAt(s, p, i)

\* the first position from `from` on whose character is in chars, else 0
IndexOfAny(s, chars, from) ==
    IF \E i \in from..Len(s) : s[i] \in chars
    THEN CHOOSE i \in from..Len(s) :
            s[i] \in chars /\ \A j \in from..(i - 1) : s[j] \notin chars
    ELSE 0

\* the last position whose character is c, else 0
LastIndexOf(s, c) ==
    IF \E i \in 1..Len(s) : s[i] = c
    THEN CHOOSE i \in 1..Len(s) :
            s[i] = c /\ \A j \in (i + 1)..Len(s) : s[j] # c
    ELSE 0

\* s.trim()
Trim(s) ==
    IF \A i \in 1..Len(s) : IsSpace(s[i]) THEN << >>
    ELSE LET first == CHOOSE i \in 1..Len(s) :
                        ~IsSpace(s[i]) /\ \A j \in 1..(i - 1) : IsSpace(s[j])
             last  == CHOOSE i \in 1..Len(s) :
                        ~IsSpace(s[i]) /\ \A j \in (i + 1)..Len(s) : IsSpace(s[j])
         IN  SubSeq(s, first, last)

\* the end of the longest run of digits that starts at position i (i - 1 when
\* there is none): what \d* or \d+ consumes from i
DigitsEnd(s, i) ==
    IF i > Len(s) \/ ~IsDigit(s[i]) THEN i - 1
    ELSE CHOOSE e \in i..Len(s) :
            /\ \A j \in i..e : IsDigit(s[j])
            /\ (e < Len(s) => ~IsDigit(s[e + 1]))

(***************************************************************************)
(* new URL(content): TRUE when the constructor returns, FALSE when it      *)
(* throws TypeError. The URL parser without a base URL, on the characters  *)
(* of the payloads below: these have no "0", "x", "%", "#", "[", "\" and   *)
(* no non-ASCII character, so every number is decimal without leading      *)
(* zeros, no host is an IPv6 address or punycode, nothing is               *)
(* percent-decoded.                                                        *)
(***************************************************************************)
\* a is less than b, both decimal numerals without leading zeros
DecimalLess(a, b) ==
    \/ Len(a) < Len(b)
    \/ /\ Len(a) = Len(b)
       /\ \E i \in 1..Len(a) :
             /\ \A j \in 1..(i - 1) : a[j] = b[j]
             /\ \E m, n \in 1..10 :
                   DigitChars[m] = a[i] /\ DigitChars[n] = b[i] /\ m < n

AllDigits(s) == \A i \in 1..Len(s) : IsDigit(s[i])

\* the items of s split strictly at "."
RECURSIVE SplitOn(_, _)
SplitOn(s, sep) ==
    LET i == IndexOfAny(s, {sep}, 1)
    IN  IF i = 0 THEN <<s>>
        ELSE <<SubSeq(s, 1, i - 1)>> \o SplitOn(SubSeq(s, i + 1, Len(s)), sep)

\* the parts of a host, without one trailing empty part
HostParts(host) ==
    LET parts == SplitOn(host, ".")
    IN  IF Len(parts) > 1 /\ parts[Len(parts)] = << >>
        THEN SubSeq(parts, 1, Len(parts) - 1)
        ELSE parts

\* the ends-in-a-number checker
EndsInNumber(host) ==
    LET parts == HostParts(host)
        last  == parts[Len(parts)]
    IN  last # << >> /\ AllDigits(last)

\* 256 to the power 5 - n, as a numeral
IPv4Limit(n) ==
    CASE n = 1 -> <<"4", "2", "9", "4", "9", "6", "7", "2", "9", "6">>
      [] n = 2 -> <<"1", "6", "7", "7", "7", "2", "1", "6">>
      [] n = 3 -> <<"6", "5", "5", "3", "6">>
      [] n = 4 -> <<"2", "5", "6">>

\* the IPv4 parser does not fail on host
IPv4Parses(host) ==
    LET parts == HostParts(host)
        n     == Len(parts)
    IN  /\ n <= 4
        /\ \A i \in 1..n : parts[i] # << >> /\ AllDigits(parts[i])
        /\ \A i \in 1..(n - 1) : DecimalLess(parts[i], <<"2", "5", "6">>)
        /\ DecimalLess(parts[n], IPv4Limit(n))

\* forbidden host code points that can be left in a host string
ForbiddenHostChars == {" ", "<", ">", "[", "]", "^", "|"}

\* the host parser does not fail on a non-empty host
HostParses(host, special) ==
    /\ \A i \in 1..Len(host) : host[i] \notin ForbiddenHostChars
    /\ (special /\ EndsInNumber(host)) => IPv4Parses(host)

\* the authority, host and port states do not fail on what follows the
\* scheme's slashes
AuthorityParses(rest, special) ==
    LET stop     == IndexOfAny(rest, {"/", "?", "#"}
                                     \cup (IF special THEN {"\\"} ELSE {}), 1)
        auth     == IF stop = 0 THEN rest ELSE SubSeq(rest, 1, stop - 1)
        at       == LastIndexOf(auth, "@")
        hostport == SubSeq(auth, at + 1, Len(auth))
        colon    == IndexOfAny(hostport, {":"}, 1)
        host     == IF colon = 0 THEN hostport
                    ELSE SubSeq(hostport, 1, colon - 1)
        port     == IF colon = 0 THEN << >>
                    ELSE SubSeq(hostport, colon + 1, Len(hostport))
    IN  /\ ~(at > 0 /\ hostport = << >>)
        /\ ~(colon > 0 /\ host = << >>)
        /\ ~(special /\ host = << >>)
        /\ (host # << >> => HostParses(host, special))
        /\ AllDigits(port)
        /\ (port # << >> => DecimalLess(port, <<"6", "5", "5", "3", "6">>))

\* what is left of s after its leading "/" and "\"
SkipSlashes(s) ==
    LET i == IF \E j \in 1..Len(s) : s[j] \notin {"/", "\\"}
             THEN CHOOSE j \in 1..Len(s) :
                     /\ s[j] \notin {"/", "\\"}
                     /\ \A m \in 1..(j - 1) : s[m] \in {"/", "\\"}
             ELSE Len(s) + 1
    IN  SubSeq(s, i, Len(s))

\* the position of the ":" that ends the scheme, 0 when there is no scheme
SchemeEnd(s) ==
    LET colon == IndexOfAny(s, {":"}, 1)
    IN  IF /\ colon > 1
           /\ IsLetter(s[1])
           /\ \A i \in 2..(colon - 1) : IsAlnum(s[i]) \/ s[i] \in {"+", "-", "."}
        THEN colon
        ELSE 0

\* the file, file slash and file host states do not fail
FileParses(rest) ==
    IF Len(rest) >= 2 /\ rest[1] \in {"/", "\\"} /\ rest[2] \in {"/", "\\"}
    THEN LET stop == IndexOfAny(rest, {"/", "\\", "?", "#"}, 3)
             host == IF stop = 0 THEN Substring(rest, 2)
                     ELSE SubSeq(rest, 3, stop - 1)
             drive == Len(host) = 2 /\ IsLetter(host[1]) /\ host[2] \in {":", "|"}
         IN  \/ host = << >>
             \/ drive
             \/ /\ \A i \in 1..Len(host) : host[i] \notin {":", "@", "%"}
                /\ HostParses(host, TRUE)
    ELSE TRUE

SpecialSchemes == {<<"h", "t", "t", "p">>, <<"h", "t", "t", "p", "s">>, <<"f", "t", "p">>, <<"w", "s">>, <<"w", "s", "s">>}

NewURL(content) ==
    LET s == SelectSeq(content, LAMBDA c : c \notin {"\t", "\n", "\r"})
        p == SchemeEnd(s)
        scheme == ToLowerCase(SubSeq(s, 1, p - 1))
        rest   == SubSeq(s, p + 1, Len(s))
    IN  IF p = 0 THEN FALSE
        ELSE IF scheme \in SpecialSchemes
             THEN AuthorityParses(SkipSlashes(rest), TRUE)
        ELSE IF scheme = <<"f", "i", "l", "e">> THEN FileParses(rest)
        ELSE IF StartsWith(rest, <<"/", "/">>)
             THEN AuthorityParses(Substring(rest, 2), FALSE)
        ELSE TRUE

(***************************************************************************)
(* detectContentType.                                                      *)
(***************************************************************************)
ContentTypes ==
    {"vcard", "url", "email", "phone", "wifi", "location", "sms", "text", "empty"}

\* /^(\+?[\d\s\-\(\)]{10,})$/.test(s)
phonePattern(s) ==
    LET body == IF s # << >> /\ s[1] = "+" THEN Tail(s) ELSE s
    IN  /\ Len(body) >= 10
        /\ \A i \in 1..Len(body) :
              IsDigit(body[i]) \/ IsSpace(body[i]) \/ body[i] \in {"-", "(", ")"}

\* /^[^\s@]+@[^\s@]+\.[^\s@]+$/.test(s)
emailPattern(s) ==
    LET at == IndexOfAny(s, {"@"}, 1)
    IN  /\ at > 1
        /\ \A i \in 1..Len(s) : ~IsSpace(s[i]) /\ (s[i] = "@" => i = at)
        /\ \E dot \in (at + 2)..(Len(s) - 1) : s[dot] = "."

\* the end of the match of -?\d+\.?\d* at position i, 0 when it does not match
NumberEnd(s, i) ==
    LET d == IF i <= Len(s) /\ s[i] = "-" THEN i + 1 ELSE i
        e == DigitsEnd(s, d)
    IN  IF e < d THEN 0
        ELSE IF e < Len(s) /\ s[e + 1] = "." THEN DigitsEnd(s, e + 2)
        ELSE e

\* the match of geo:(-?\d+\.?\d*),(-?\d+\.?\d*) at position i
GeoMatchAt(s, i) ==
    LET latEnd == IF OccursAt(s, <<"g", "e", "o", ":">>, i) THEN NumberEnd(s, i + 4) ELSE 0
        comma  == latEnd > 0 /\ latEnd < Len(s) /\ s[latEnd + 1] = ","
        lngEnd == IF comma THEN NumberEnd(s, latEnd + 2) ELSE 0
    IN  [matched |-> lngEnd > 0,
         lat |-> IF lngEnd > 0 THEN SubSeq(s, i + 4, latEnd) ELSE << >>,
         lng |-> IF lngEnd > 0 THEN SubSeq(s, latEnd + 2, lngEnd) ELSE << >>]

\* /^geo:-?\d+\.?\d*,-?\d+\.?\d*/.test(s)
geoPattern(s) == GeoMatchAt(s, 1).matched

\* [a-zA-Z0-9][a-zA-Z0-9-]*[a-zA-Z0-9]*\.[a-zA-Z]{2,} matches at the start of s
DomainShape(s) ==
    /\ s # << >>
    /\ IsAlnum(s[1])
    /\ \E dot \in 2..(Len(s) - 2) :
          /\ s[dot] = "."
          /\ \A i \in 2..(dot - 1) : IsAlnum(s[i]) \/ s[i] = "-"
          /\ IsLetter(s[dot + 1])
          /\ IsLetter(s[dot + 2])

\* /^(www\.)?[a-zA-Z0-9][a-zA-Z0-9-]*[a-zA-Z0-9]*\.[a-zA-Z]{2,}/.test(s)
urlPattern(s) ==
    \/ (StartsWith(s, <<"w", "w", "w", ".">>) /\ DomainShape(Substring(s, 4)))
    \/ DomainShape(s)

\* the function without the try around new URL: the TypeError escapes
detectContentTypeNoCatch(content) ==
    LET s == Trim(content)
    IN  IF content = << >> \/ s = << >> THEN "empty"
        ELSE IF StartsWith(s, <<"B", "E", "G", "I", "N", ":", "V", "C", "A", "R", "D">>) /\ Includes(s, <<"E", "N", "D", ":", "V", "C", "A", "R", "D">>)
             THEN "vcard"
        ELSE IF StartsWith(s, <<"W", "I", "F", "I", ":">>) THEN "wifi"
        ELSE IF StartsWith(s, <<"S", "M", "S", "T", "O", ":">>) \/ StartsWith(s, <<"s", "m", "s", ":">>) THEN "sms"
        ELSE IF phonePattern(s) \/ StartsWith(s, <<"t", "e", "l", ":">>) THEN "phone"
        ELSE IF emailPattern(s) \/ StartsWith(s, <<"m", "a", "i", "l", "t", "o", ":">>) THEN "email"
        ELSE IF geoPattern(s) THEN "location"
        ELSE IF NewURL(s) THEN "url"
        ELSE "TypeError"

\* the function with the URL check moved to the front of the checks
detectContentTypeUrlFirst(content) ==
    LET s == Trim(content)
    IN  IF content = << >> \/ s = << >> THEN "empty"
        ELSE IF NewURL(s) \/ urlPattern(s) THEN "url"
        ELSE IF StartsWith(s, <<"B", "E", "G", "I", "N", ":", "V", "C", "A", "R", "D">>) /\ Includes(s, <<"E", "N", "D", ":", "V", "C", "A", "R", "D">>)
             THEN "vcard"
        ELSE IF StartsWith(s, <<"W", "I", "F", "I", ":">>) THEN "wifi"
        ELSE IF StartsWith(s, <<"S", "M", "S", "T", "O", ":">>) \/ StartsWith(s, <<"s", "m", "s", ":">>) THEN "sms"
        ELSE IF phonePattern(s) \/ StartsWith(s, <<"t", "e", "l", ":">>) THEN "phone"
        ELSE IF emailPattern(s) \/ StartsWith(s, <<"m", "a", "i", "l", "t", "o", ":">>) THEN "email"
        ELSE IF geoPattern(s) THEN "location"
        ELSE "text"

detectContentType(content) ==
    LET s == Trim(content)
    IN  IF content = << >> \/ s = << >> THEN "empty"
        ELSE IF StartsWith(s, <<"B", "E", "G", "I", "N", ":", "V", "C", "A", "R", "D">>) /\ Includes(s, <<"E", "N", "D", ":", "V", "C", "A", "R", "D">>)
             THEN "vcard"
        ELSE IF StartsWith(s, <<"W", "I", "F", "I", ":">>) THEN "wifi"
        ELSE IF StartsWith(s, <<"S", "M", "S", "T", "O", ":">>) \/ StartsWith(s, <<"s", "m", "s", ":">>) THEN "sms"
        ELSE IF phonePattern(s) \/ StartsWith(s, <<"t", "e", "l", ":">>) THEN "phone"
        ELSE IF emailPattern(s) \/ StartsWith(s, <<"m", "a", "i", "l", "t", "o", ":">>) THEN "email"
        ELSE IF geoPattern(s) THEN "location"
        ELSE IF NewURL(s) THEN "url"
        ELSE IF urlPattern(s) THEN "url"
        ELSE "text"

(***************************************************************************)
(* parseVCard. An optional value is [has, v]; a list that is created on    *)
(* its first push is [present, items]; unmappedFields is a function from   *)
(* keys to values.                                                         *)
(***************************************************************************)
Undefined == [has |-> FALSE, v |-> << >>]
Some(s) == [has |-> TRUE, v |-> s]

\* s || undefined
OrUndefined(s) == IF s = << >> THEN Undefined ELSE Some(s)

\* an element of a destructured array: missing elements read as falsy
ItemAt(parts, i) == IF i <= Len(parts) THEN parts[i] ELSE << >>

\* c.toUpperCase()
UpperChar(c) ==
    IF c \in Range(LowerChars)
    THEN UpperChars[CHOOSE i \in 1..26 : LowerChars[i] = c]
    ELSE c

\* s.toUpperCase()
ToUpperCase(s) == [i \in 1..Len(s) |-> UpperChar(s[i])]

\* parts.join(sep)
RECURSIVE Join(_, _)
Join(parts, sep) ==
    IF parts = << >> THEN << >>
    ELSE IF Len(parts) = 1 THEN parts[1]
    ELSE parts[1] \o sep \o Join(Tail(parts), sep)

Absent == [present |-> FALSE, items |-> << >>]

\* a push onto a list that every line creates anew
PushOntoNew(list, item) == [present |-> TRUE, items |-> <<item>>]

\* if (!list) list = []; list.push(item)
Push(list, item) == [present |-> TRUE, items |-> Append(list.items, item)]

NoName ==
    [present |-> FALSE, formatted |-> Undefined, given |-> Undefined,
     family |-> Undefined, prefix |-> Undefined, suffix |-> Undefined]

NoOrganization == [present |-> FALSE, name |-> Undefined, title |-> Undefined]

\* a contact that starts with its four lists present and empty
ContactWithEmptyLists ==
    [name |-> NoName, emails |-> [present |-> TRUE, items |-> << >>],
     phones |-> [present |-> TRUE, items |-> << >>],
     organization |-> NoOrganization,
     addresses |-> [present |-> TRUE, items |-> << >>],
     urls |-> [present |-> TRUE, items |-> << >>],
     notes |-> Undefined, unmappedFields |-> << >>]

\* const contact: VCardContact = { unmappedFields: {} }
EmptyContact ==
    [name |-> NoName, emails |-> Absent, phones |-> Absent,
     organization |-> NoOrganization, addresses |-> Absent, urls |-> Absent,
     notes |-> Undefined, unmappedFields |-> << >>]

\* fields[key] = value on a plain object: "__proto__" names no own property
SetField(fields, key, value) ==
    IF key = <<"_", "_", "p", "r", "o", "t", "o", "_", "_">> THEN fields
    ELSE [k \in (DOMAIN fields) \cup {key} |->
            IF k = key THEN value ELSE fields[k]]

\* vcardString.split(/\r?\n/).map(line => line.trim()).filter(nonempty)
VCardLines(vcardString) ==
    LET raw == SplitOn(vcardString, "\n")
        trimmed == [i \in 1..Len(raw) |-> Trim(raw[i])]
    IN  SelectSeq(trimmed, LAMBDA line : Len(line) > 0)

\* params.find(p => p.startsWith('TYPE='))?.replace('TYPE=', '') || 'default'
TypeParam(params) ==
    IF \E i \in 1..Len(params) : StartsWith(params[i], <<"T", "Y", "P", "E", "=">>)
    THEN LET i == CHOOSE i \in 1..Len(params) :
                    /\ StartsWith(params[i], <<"T", "Y", "P", "E", "=">>)
                    /\ \A j \in 1..(i - 1) : ~StartsWith(params[j], <<"T", "Y", "P", "E", "=">>)
             v == Substring(params[i], 5)
         IN  IF v = << >> THEN <<"d", "e", "f", "a", "u", "l", "t">> ELSE v
    ELSE <<"d", "e", "f", "a", "u", "l", "t">>

\* the type of a TEL entry
CleanType(typeParam) ==
    IF typeParam = << >> THEN <<"p", "h", "o", "n", "e">>
    ELSE LET types == ToLowerCase(typeParam)
         IN  IF Includes(types, <<"c", "e", "l", "l">>) \/ Includes(types, <<"m", "o", "b", "i", "l", "e">>)
             THEN <<"m", "o", "b", "i", "l", "e">>
             ELSE IF Includes(types, <<"w", "o", "r", "k">>) THEN <<"w", "o", "r", "k">>
             ELSE IF Includes(types, <<"h", "o", "m", "e">>) THEN <<"h", "o", "m", "e">>
             ELSE IF Includes(types, <<"f", "a", "x">>) THEN <<"f", "a", "x">>
             ELSE Trim(SplitOn(types, ",")[1])

\* the entry an ADR line appends
Address(typeParam, value) ==
    LET parts   == SplitOn(value, ";")
        street  == ItemAt(parts, 3)
        city    == ItemAt(parts, 4)
        state   == ItemAt(parts, 5)
        zip     == ItemAt(parts, 6)
        country == ItemAt(parts, 7)
        cityZipLine ==
            (IF zip # << >> THEN <<zip>> ELSE << >>)
            \o (IF city # << >> THEN <<city>> ELSE << >>)
        addressParts ==
            (IF street # << >> THEN <<street>> ELSE << >>)
            \o (IF cityZipLine # << >> THEN <<Join(cityZipLine, <<" ">>)>> ELSE << >>)
            \o (IF state # << >> THEN <<state>> ELSE << >>)
            \o (IF country # << >> THEN <<country>> ELSE << >>)
    IN  [type      |-> ToLowerCase(typeParam),
         street    |-> OrUndefined(street),
         city      |-> OrUndefined(city),
         state     |-> OrUndefined(state),
         zip       |-> OrUndefined(zip),
         country   |-> OrUndefined(country),
         formatted |-> OrUndefined(Join(SelectSeq(addressParts,
                                    LAMBDA part : part # << >>), <<",", " ">>))]

\* one turn of the loop over the lines: the contact after the line
ParseLine(contact, line) ==
    LET colonIndex == IndexOfAny(line, {":"}, 1)
        fieldPart  == SubSeq(line, 1, colonIndex - 1)
        value      == SubSeq(line, colonIndex + 1, Len(line))
        split      == SplitOn(fieldPart, ";")
        field      == split[1]
        params     == Tail(split)
        typeParam  == TypeParam(params)
        upper      == ToUpperCase(field)
    IN  IF \/ StartsWith(line, <<"B", "E", "G", "I", "N", ":">>)
           \/ StartsWith(line, <<"E", "N", "D", ":">>)
           \/ StartsWith(line, <<"V", "E", "R", "S", "I", "O", "N", ":">>)
        THEN contact
        ELSE IF colonIndex = 0 THEN contact
        ELSE IF upper = <<"F", "N">>
        THEN [contact EXCEPT !.name.present = TRUE,
                             !.name.formatted = Some(value)]
        ELSE IF upper = <<"N">>
        THEN LET parts == SplitOn(value, ";")
             IN  [contact EXCEPT
                    !.name.present = TRUE,
                    !.name.family = OrUndefined(ItemAt(parts, 1)),
                    !.name.given  = OrUndefined(ItemAt(parts, 2)),
                    !.name.prefix = OrUndefined(ItemAt(parts, 4)),
                    !.name.suffix = OrUndefined(ItemAt(parts, 5))]
        ELSE IF upper = <<"E", "M", "A", "I", "L">>
        THEN [contact EXCEPT !.emails =
                Push(@, [type |-> ToLowerCase(typeParam), value |-> value])]
        ELSE IF upper = <<"T", "E", "L">>
        THEN [contact EXCEPT !.phones =
                Push(@, [type |-> CleanType(typeParam), value |-> value])]
        ELSE IF upper = <<"O", "R", "G">>
        THEN [contact EXCEPT !.organization.present = TRUE,
                             !.organization.name = Some(value)]
        ELSE IF upper = <<"T", "I", "T", "L", "E">>
        THEN [contact EXCEPT !.organization.present = TRUE,
                             !.organization.title = Some(value)]
        ELSE IF upper = <<"A", "D", "R">>
        THEN [contact EXCEPT !.addresses = Push(@, Address(typeParam, value))]
        ELSE IF upper = <<"U", "R", "L">>
        THEN [contact EXCEPT !.urls =
                Push(@, [type |-> ToLowerCase(typeParam), value |-> value])]
        ELSE IF upper = <<"N", "O", "T", "E">>
        THEN [contact EXCEPT !.notes = Some(value)]
        ELSE [contact EXCEPT !.unmappedFields =
                SetField(@, ToLowerCase(field), value)]

RECURSIVE ParseLines(_, _, _)
\* the loop over the lines from the i-th on
ParseLines(contact, lines, i) ==
    IF i > Len(lines) THEN contact
    ELSE ParseLines(ParseLine(contact, lines[i]), lines, i + 1)

parseVCard(vcardString) == ParseLines(EmptyContact, VCardLines(vcardString), 1)

(***************************************************************************)
(* parseContent.                                                           *)
(***************************************************************************)
Action(type, label, value, icon) ==
    [type |-> type, label |-> label, value |-> value, icon |-> icon]

\* the match of WIFI:T:([^;]*);S:([^;]*);P:([^;]*);H:([^;]*);? at position i
WifiMatchAt(s, i) ==
    LET t0 == i + 7
        t1 == IF OccursAt(s, <<"W", "I", "F", "I", ":", "T", ":">>, i) THEN IndexOfAny(s, {";"}, t0) ELSE 0
        s0 == t1 + 3
        s1 == IF t1 > 0 /\ OccursAt(s, <<"S", ":">>, t1 + 1)
              THEN IndexOfAny(s, {";"}, s0) ELSE 0
        p0 == s1 + 3
        p1 == IF s1 > 0 /\ OccursAt(s, <<"P", ":">>, s1 + 1)
              THEN IndexOfAny(s, {";"}, p0) ELSE 0
        h0 == p1 + 3
        ok == p1 > 0 /\ OccursAt(s, <<"H", ":">>, p1 + 1)
        h1 == IF ok THEN IndexOfAny(s, {";"}, h0) ELSE 0
    IN  IF ok
        THEN [matched  |-> TRUE,
              security |-> SubSeq(s, t0, t1 - 1),
              ssid     |-> SubSeq(s, s0, s1 - 1),
              password |-> SubSeq(s, p0, p1 - 1),
              hidden   |-> IF h1 = 0 THEN SubSeq(s, h0, Len(s))
                           ELSE SubSeq(s, h0, h1 - 1)]
        ELSE [matched |-> FALSE, security |-> << >>, ssid |-> << >>,
              password |-> << >>, hidden |-> << >>]

\* the least of a nonempty set of positions
Leftmost(positions) == CHOOSE i \in positions : \A j \in positions : i <= j

\* content.match(/WIFI:T:([^;]*);S:([^;]*);P:([^;]*);H:([^;]*);?/): the
\* leftmost match, a failed one when there is none
wifiMatch(content) ==
    LET end == Len(content) + 1
    IN  WifiMatchAt(content, Leftmost({i \in 1..end :
                        i = end \/ WifiMatchAt(content, i).matched}))

\* content.match(/geo:(-?\d+\.?\d*),(-?\d+\.?\d*)/)
geoMatch(content) ==
    LET end == Len(content) + 1
    IN  GeoMatchAt(content, Leftmost({i \in 1..end :
                        i = end \/ GeoMatchAt(content, i).matched}))

\* the match of (?:SMSTO:|sms:)([^:?]*)[?:]?(.*) at position i
SmsMatchAt(s, i) ==
    LET plen  == IF OccursAt(s, <<"S", "M", "S", "T", "O", ":">>, i) THEN 6
                 ELSE IF OccursAt(s, <<"s", "m", "s", ":">>, i) THEN 4 ELSE 0
        n0    == i + plen
        delim == IndexOfAny(s, {":", "?"}, n0)
        eol   == IndexOfAny(s, {"\n", "\r"}, delim + 1)
    IN  IF plen = 0
        THEN [matched |-> FALSE, number |-> << >>, message |-> << >>]
        ELSE IF delim = 0
        THEN [matched |-> TRUE, number |-> SubSeq(s, n0, Len(s)),
              message |-> << >>]
        ELSE [matched |-> TRUE, number |-> SubSeq(s, n0, delim - 1),
              message |-> IF eol = 0 THEN SubSeq(s, delim + 1, Len(s))
                          ELSE SubSeq(s, delim + 1, eol - 1)]

\* content.match(/(?:SMSTO:|sms:)([^:?]*)[?:]?(.*)/)
smsMatch(content) ==
    LET end == Len(content) + 1
    IN  SmsMatchAt(content, Leftmost({i \in 1..end :
                        i = end \/ SmsMatchAt(content, i).matched}))

\* the characters encodeURIComponent escapes, among those of the payloads,
\* with their escapes
Escapes ==
    << <<" ", <<"%", "2", "0">>>>,  <<"\n", <<"%", "0", "A">>>>, <<"\r", <<"%", "0", "D">>>>, <<"\t", <<"%", "0", "9">>>>,
       <<":", <<"%", "3", "A">>>>,  <<"?", <<"%", "3", "F">>>>,  <<"@", <<"%", "4", "0">>>>,  <<"+", <<"%", "2", "B">>>>,
       <<",", <<"%", "2", "C">>>>,  <<";", <<"%", "3", "B">>>>,  <<"/", <<"%", "2", "F">>>>,  <<"=", <<"%", "3", "D">>>>,
       <<"#", <<"%", "2", "3">>>>,  <<"$", <<"%", "2", "4">>>>,  <<"&", <<"%", "2", "6">>>>,  <<"%", <<"%", "2", "5">>>>,
       <<"<", <<"%", "3", "C">>>>,  <<">", <<"%", "3", "E">>>>,  <<"[", <<"%", "5", "B">>>>,  <<"]", <<"%", "5", "D">>>>,
       <<"^", <<"%", "5", "E">>>>,  <<"|", <<"%", "7", "C">>>>,  <<"{", <<"%", "7", "B">>>>,  <<"}", <<"%", "7", "D">>>> >>

RECURSIVE encodeURIComponent(_)
encodeURIComponent(s) ==
    IF s = << >> THEN << >>
    ELSE (IF \E i \in 1..Len(Escapes) : Escapes[i][1] = Head(s)
          THEN Escapes[CHOOSE i \in 1..Len(Escapes) : Escapes[i][1] = Head(s)][2]
          ELSE <<Head(s)>>)
         \o encodeURIComponent(Tail(s))

\* s without its leading "0"s
RECURSIVE DropLeadingZeros(_)
DropLeadingZeros(s) ==
    IF s # << >> /\ Head(s) = "0" THEN DropLeadingZeros(Tail(s)) ELSE s

\* s without its trailing "0"s
RECURSIVE DropTrailingZeros(_)
DropTrailingZeros(s) ==
    IF s # << >> /\ s[Len(s)] = "0"
    THEN DropTrailingZeros(SubSeq(s, 1, Len(s) - 1))
    ELSE s

\* parseFloat(s) for an s that matches -?\d+\.?\d*: the number as its sign,
\* integer digits and fraction digits
parseFloat(s) ==
    LET neg    == s # << >> /\ s[1] = "-"
        digits == IF neg THEN Tail(s) ELSE s
        dot    == IndexOfAny(digits, {"."}, 1)
        int    == IF dot = 0 THEN digits ELSE SubSeq(digits, 1, dot - 1)
        frac   == IF dot = 0 THEN << >> ELSE SubSeq(digits, dot + 1, Len(digits))
    IN  [negative |-> neg,
         integer  |-> DropLeadingZeros(int),
         fraction |-> DropTrailingZeros(frac)]

\* the return after the switch, with the copy action carrying the trimmed text
PlainTextTrimmed(content) ==
    [type |-> "text",
     data |-> [text |-> Trim(content)],
     displayText |-> Trim(content),
     actions |-> <<Action("copy", <<"C", "o", "p", "y", " ", "T", "e", "x", "t">>, Trim(content), "clipboard")>>]

\* the return after the switch, reached by the break of a failed match
PlainText(content) ==
    [type |-> "text",
     data |-> [text |-> content],
     displayText |-> content,
     actions |-> <<Action("copy", <<"C", "o", "p", "y", " ", "T", "e", "x", "t">>, content, "clipboard")>>]

\* case 'vcard' with an email action for every email entry
ParsedVCardEveryEmail(type, content) ==
    LET contact == parseVCard(content)
        name    == contact.name
        displayName ==
            IF name.formatted.has /\ name.formatted.v # << >>
            THEN name.formatted.v
            ELSE IF name.given.has /\ name.family.has
                 THEN name.given.v \o <<" ">> \o name.family.v
                 ELSE <<"C", "o", "n", "t", "a", "c", "t">>
        calls == [i \in 1..Len(contact.phones.items) |->
                    LET phone == contact.phones.items[i]
                        typeLabel ==
                            IF phone.type # << >> /\ phone.type # <<"p", "h", "o", "n", "e">>
                            THEN <<" ", "(">> \o phone.type \o <<")">>
                            ELSE << >>
                    IN  Action("call", <<"C", "a", "l", "l", " ">> \o phone.value \o typeLabel,
                               phone.value, "phone")]
        emails == [i \in 1..Len(contact.emails.items) |->
                    Action("email", <<"E", "m", "a", "i", "l", " ">> \o contact.emails.items[i].value,
                           contact.emails.items[i].value, "envelope")]
    IN  [type |-> type,
         data |-> contact,
         displayText |-> displayName,
         actions |-> calls \o emails
                     \o <<Action("copy", <<"C", "o", "p", "y", " ", "v", "C", "a", "r", "d">>, content, "clipboard")>>]

\* case 'vcard'
ParsedVCard(type, content) ==
    LET contact == parseVCard(content)
        name    == contact.name
        displayName ==
            IF name.formatted.has /\ name.formatted.v # << >>
            THEN name.formatted.v
            ELSE IF name.given.has /\ name.family.has
                 THEN name.given.v \o <<" ">> \o name.family.v
                 ELSE <<"C", "o", "n", "t", "a", "c", "t">>
        calls == [i \in 1..Len(contact.phones.items) |->
                    LET phone == contact.phones.items[i]
                        typeLabel ==
                            IF phone.type # << >> /\ phone.type # <<"p", "h", "o", "n", "e">>
                            THEN <<" ", "(">> \o phone.type \o <<")">>
                            ELSE << >>
                    IN  Action("call", <<"C", "a", "l", "l", " ">> \o phone.value \o typeLabel,
                               phone.value, "phone")]
        emails == IF contact.emails.present /\ Len(contact.emails.items) > 0
                  THEN <<Action("email",
                                <<"E", "m", "a", "i", "l", " ">> \o contact.emails.items[1].value,
                                contact.emails.items[1].value, "envelope")>>
                  ELSE << >>
    IN  [type |-> type,
         data |-> contact,
         displayText |-> displayName,
         actions |-> calls \o emails
                     \o <<Action("copy", <<"C", "o", "p", "y", " ", "v", "C", "a", "r", "d">>, content, "clipboard")>>]

\* a truncation that sets in at 100 characters
DisplayOfTextFrom100(content) ==
    IF Len(content) >= 100
    THEN SubSeq(content, 1, 100) \o <<".", ".", ".">>
    ELSE content

\* content.length > 100 ? content.substring(0, 100) + '...' : content
DisplayOfText(content) ==
    IF Len(content) > 100
    THEN SubSeq(content, 1, 100) \o <<".", ".", ".">>
    ELSE content

parseContent(content) ==
    LET type == detectContentType(content)
    IN  CASE type = "empty" ->
               [type |-> type, data |-> [null |-> TRUE],
                displayText |-> <<"N", "o", " ", "c", "o", "n", "t", "e", "n", "t", " ", "f", "o", "u", "n", "d">>, actions |-> << >>]
          [] type = "vcard" -> ParsedVCard(type, content)
          [] type = "url" ->
               LET processedUrl ==
                       IF ~StartsWith(content, <<"h", "t", "t", "p", ":", "/", "/">>)
                          /\ ~StartsWith(content, <<"h", "t", "t", "p", "s", ":", "/", "/">>)
                       THEN <<"h", "t", "t", "p", "s", ":", "/", "/">> \o content
                       ELSE content
               IN  [type |-> type,
                    data |-> [url |-> processedUrl, original |-> content],
                    displayText |-> content,
                    actions |->
                      <<Action("open", <<"O", "p", "e", "n", " ", "W", "e", "b", "s", "i", "t", "e">>, processedUrl, "external-link"),
                        Action("copy", <<"C", "o", "p", "y", " ", "U", "R", "L">>, content, "clipboard")>>]
          [] type = "email" ->
               LET emailAddress == IF StartsWith(content, <<"m", "a", "i", "l", "t", "o", ":">>)
                                   THEN Substring(content, 7) ELSE content
               IN  [type |-> type,
                    data |-> [email |-> emailAddress],
                    displayText |-> emailAddress,
                    actions |->
                      <<Action("email", <<"S", "e", "n", "d", " ", "E", "m", "a", "i", "l">>, emailAddress, "envelope"),
                        Action("copy", <<"C", "o", "p", "y", " ", "E", "m", "a", "i", "l">>, emailAddress, "clipboard")>>]
          [] type = "phone" ->
               LET phoneNumber == IF StartsWith(content, <<"t", "e", "l", ":">>)
                                  THEN Substring(content, 4) ELSE content
               IN  [type |-> type,
                    data |-> [phone |-> phoneNumber],
                    displayText |-> phoneNumber,
                    actions |->
                      <<Action("call", <<"C", "a", "l", "l", " ", "N", "u", "m", "b", "e", "r">>, phoneNumber, "phone"),
                        Action("sms", <<"S", "e", "n", "d", " ", "S", "M", "S">>, phoneNumber, "chat-bubble-left"),
                        Action("copy", <<"C", "o", "p", "y", " ", "N", "u", "m", "b", "e", "r">>, phoneNumber, "clipboard")>>]
          [] type = "wifi" ->
               LET match == wifiMatch(content)
               IN  IF match.matched
                   THEN [type |-> type,
                         data |-> [security |-> match.security,
                                   ssid |-> match.ssid,
                                   password |-> match.password,
                                   hidden |-> match.hidden = <<"t", "r", "u", "e">>],
                         displayText |-> <<"W", "i", "F", "i", ":", " ">> \o match.ssid,
                         actions |->
                           <<Action("copy", <<"C", "o", "p", "y", " ", "W", "i", "F", "i", " ", "I", "n", "f", "o">>, content, "clipboard")>>]
                   ELSE PlainText(content)
          [] type = "location" ->
               LET match == geoMatch(content)
               IN  IF match.matched
                   THEN [type |-> type,
                         data |-> [latitude |-> parseFloat(match.lat),
                                   longitude |-> parseFloat(match.lng)],
                         displayText |->
                           <<"L", "o", "c", "a", "t", "i", "o", "n", ":", " ">> \o match.lat \o <<",", " ">> \o match.lng,
                         actions |->
                           <<Action("navigate", <<"O", "p", "e", "n", " ", "i", "n", " ", "M", "a", "p", "s">>,
                                    <<"h", "t", "t", "p", "s", ":", "/", "/", "m", "a", "p", "s", ".", "g", "o", "o", "g", "l", "e", ".", "c", "o", "m", "/", "m", "a", "p", "s", "?", "q", "=">>
                                      \o match.lat \o <<",">> \o match.lng,
                                    "map-pin"),
                             Action("copy", <<"C", "o", "p", "y", " ", "C", "o", "o", "r", "d", "i", "n", "a", "t", "e", "s">>,
                                    match.lat \o <<",", " ">> \o match.lng, "clipboard")>>]
                   ELSE PlainText(content)
          [] type = "sms" ->
               LET match == smsMatch(content)
                   number == match.number
                   message == match.message
               IN  IF match.matched
                   THEN [type |-> type,
                         data |-> [number |-> Trim(number), message |-> message],
                         displayText |->
                           <<"S", "M", "S", " ", "t", "o", " ">> \o number
                             \o (IF message # << >> THEN <<":", " ">> \o message ELSE << >>),
                         actions |->
                           <<Action("sms", <<"S", "e", "n", "d", " ", "S", "M", "S">>,
                                    <<"s", "m", "s", ":">> \o number
                                      \o (IF message # << >>
                                          THEN <<"?", "b", "o", "d", "y", "=">> \o encodeURIComponent(message)
                                          ELSE << >>),
                                    "chat-bubble-left"),
                             Action("copy", <<"C", "o", "p", "y", " ", "C", "o", "n", "t", "e", "n", "t">>, content, "clipboard")>>]
                   ELSE PlainText(content)
          [] OTHER ->
               [type |-> "text",
                data |-> [text |-> content],
                displayText |-> DisplayOfText(content),
                actions |->
                  <<Action("copy", <<"C", "o", "p", "y", " ", "T", "e", "x", "t">>, content, "clipboard")>>]

(***************************************************************************)
(* The payloads the content utilities are run on: every concatenation of   *)
(* at most MaxPieces pieces of one family.                                 *)
(***************************************************************************)
\* fifty characters of a long text
Filler == [i \in 1..50 |-> "a"]

Families ==
    { { Filler, <<"W", "I", "F", "I", ":">>, <<" ">>, <<"b">> },
      { <<" ">>, <<"\n">>, <<"B", "E", "G", "I", "N", ":", "V", "C", "A", "R", "D">>, <<"E", "N", "D", ":", "V", "C", "A", "R", "D">>, <<"a", "b">>, <<":">>, <<"a", "@", "b", ".", "c", "o", "m">> },
      { <<"W", "I", "F", "I", ":">>, <<"T", ":", "a", ";", "S", ":", "b", ";">>, <<"P", ":", "c", ";", "H", ":", "t", "r", "u", "e">>, <<"S", ":", "b", ";">>, <<";">>, <<" ">>, <<"a", "@", "b", ".", "c", "o", "m">> },
      { <<"s", "m", "s", ":">>, <<"S", "M", "S", "T", "O", ":">>, <<"1", "2", "3", "4", "5">>, <<":">>, <<"?">>, <<"a", "b", " ", "c">>, <<" ">> },
      { <<"t", "e", "l", ":">>, <<"+">>, <<"1", "2", "3", "4", "5">>, <<"-", "(", "1", "2", ")">>, <<" ">>, <<"a", "b">>, <<".", "c", "o", "m">> },
      { <<"m", "a", "i", "l", "t", "o", ":">>, <<"a", "@", "b">>, <<".", "c", "o", "m">>, <<"@">>, <<".">>, <<" ">>, <<"t", "e", "l", ":">> },
      { <<"g", "e", "o", ":">>, <<"1", ".", "5">>, <<",", "-", "1", ".", "5">>, <<"-">>, <<",">>, <<"a", "@", "b", ".", "c", "o", "m">>, <<" ">> },
      { <<"h", "t", "t", "p", ":", "/", "/">>, <<"f", "t", "p", ":", "/", "/">>, <<"w", "w", "w", ".">>, <<"a", "b">>, <<".", "c", "o", "m">>, <<":">>, <<"1", "2", "3", "4", "5">>, <<" ">>, <<".">> } }

RECURSIVE Concats(_, _)
\* the concatenations of at most n pieces of the family f
Concats(f, n) ==
    IF n = 0 THEN {<< >>}
    ELSE LET shorter == Concats(f, n - 1)
         IN  shorter \cup {p \o q : p \in shorter, q \in f}

Payloads == UNION {Concats(f, MaxPieces) : f \in Families}

(***************************************************************************)
(* The content utilities as operations on a decoded text.                  *)
(***************************************************************************)
InitContent ==
    /\ decodedText \in Payloads
    /\ tags = << >>
    /\ parsed = << >>
    /\ contacts = << >>
    \* no scan is running
    /\ pc = "idle"
    /\ ctx = TRUE
    /\ strategyIdx = 0
    /\ imageData = NoBitmap
    /\ original = NoBitmap
    /\ processedData = NoBitmap
    /\ decoderInput = [strategy |-> 0, bitmap |-> NoBitmap]
    /\ reported = << >>
    /\ noResult = {}
    /\ faulted = {}
    /\ thrower = "none"
    /\ legible = {}
    /\ outcome = Pending
    \* no filter is called on its own
    /\ source = NoBitmap
    /\ filterFn = "none"
    /\ outputs = << >>
    \* the scanner component shows its upload screen
    /\ scannerState = initialState
    /\ task = NoTask
    /\ offered = << >>
    /\ handed = << >>

\* a call detectContentType(decodedText)
DetectContentType ==
    /\ Len(tags) < MaxCalls
    /\ tags' = Append(tags, detectContentType(decodedText))
    /\ UNCHANGED <<decodedText, parsed, contacts, notContentVars>>

\* a call parseContent(decodedText)
ParseContent ==
    /\ Len(parsed) < MaxCalls
    /\ parsed' = Append(parsed, parseContent(decodedText))
    /\ UNCHANGED <<decodedText, tags, contacts, notContentVars>>

NextContent == DetectContentType \/ ParseContent

(***************************************************************************)
(* The contact cards parseVCard and parseContent are run on: BEGIN:VCARD,  *)
(* at most MaxLines lines of one family, END:VCARD.                        *)
(***************************************************************************)
CardFamilies ==
    { { <<"T", "E", "L", ":", "1">>, <<"T", "E", "L", ";", "T", "Y", "P", "E", "=", "W", "O", "R", "K", ",", "C", "E", "L", "L", ":", "2">>, <<"T", "E", "L", ";", "T", "Y", "P", "E", "=", ",", "x", ":", "6">>,
        <<"T", "E", "L", ";", "T", "Y", "P", "E", "=", "P", "H", "O", "N", "E", ":", "7">>, <<"E", "M", "A", "I", "L", ";", "T", "Y", "P", "E", "=", "W", "o", "r", "k", ":", "a", "@", "b">> },
      { <<"T", "E", "L", ";", "T", "Y", "P", "E", "=", "f", "a", "x", ",", "h", "o", "m", "e", ",", "w", "o", "r", "k", ":", "3">>, <<"T", "E", "L", ";", "T", "Y", "P", "E", "=", "P", "a", "g", "e", "r", ",", "x", ":", "5">>, <<"T", "E", "L", ";", "t", "y", "p", "e", "=", "C", "E", "L", "L", ":", "4">>,
        <<"T", "E", "L", ";", "T", "Y", "P", "E", "=", "F", "A", "X", ":", "8">>, <<"T", "E", "L", ";", "T", "Y", "P", "E", "=", "h", "o", "m", "e", ",", "f", "a", "x", ":", "9">> },
      { <<"F", "N", ":", "A", "l", " ", "B">>, <<"F", "N", ":", "C", "y">>, <<"N", ":", "B", ";", "A", "l", ";", ";", "D", "r">>, <<"N", ":", "D", ";", "E", "d", ";", ";", ";", "J", "r">>, <<"N", "O", "T", "E", ":", "h", "i">> },
      { <<"O", "R", "G", ":", "A", "c", "m", "e">>, <<"O", "R", "G", ":", "B", "l", "e">>, <<"T", "I", "T", "L", "E", ":", "B", "o", "s", "s">>, <<"N", "O", "T", "E", ":", "h", "i">>, <<"N", "O", "T", "E", ":", "y", "o">> },
      { <<"E", "M", "A", "I", "L", ":", "a", "@", "b">>, <<"e", "m", "a", "i", "l", ";", "T", "Y", "P", "E", "=", "H", "O", "M", "E", ":", "c", "@", "d">>, <<"U", "R", "L", ":", "x", ".", "y">>, <<"U", "R", "L", ";", "T", "y", "p", "e", "=", "W", "O", "R", "K", ":", "z">>,
        <<"A", "D", "R", ";", "T", "Y", "P", "E", "=", "H", "O", "M", "E", ":", ";", ";", "1", " ", "S", "t", ";", "T", "o", "w", "n", ";", "S", "T", ";", "9", "9", "9", ";", "U", "S">>, <<"A", "D", "R", ":", ";", ";", ";", "T", "o", "w", "n">> },
      { <<"X", "-", "C", "U", "S", "T", "O", "M", ":", "f", "o", "o">>, <<"x", "-", "c", "u", "s", "t", "o", "m", ":", "b", "a", "r">>, <<"X", "-", "A", ";", "T", "Y", "P", "E", "=", "b", ":", "c", ":", "d">>, <<"n", "o", "c", "o", "l", "o", "n">>,
        <<"_", "_", "p", "r", "o", "t", "o", "_", "_", ":", "x">>, <<" ", "V", "E", "R", "S", "I", "O", "N", ":", "3", ".", "0", "\r">> } }

RECURSIVE CardBodies(_, _)
\* the texts of at most n lines of the family f, each line ended by "\n"
CardBodies(f, n) ==
    IF n = 0 THEN {<< >>}
    ELSE LET shorter == CardBodies(f, n - 1)
         IN  shorter \cup {body \o line \o <<"\n">> : body \in shorter, line \in f}

Cards ==
    UNION {{<<"B", "E", "G", "I", "N", ":", "V", "C", "A", "R", "D", "\n">> \o body \o <<"E", "N", "D", ":", "V", "C", "A", "R", "D">> : body \in CardBodies(f, MaxLines)}
             : f \in CardFamilies}

InitCards ==
    /\ decodedText \in Cards
    /\ tags = << >>
    /\ parsed = << >>
    /\ contacts = << >>
    \* no scan is running
    /\ pc = "idle"
    /\ ctx = TRUE
    /\ strategyIdx = 0
    /\ imageData = NoBitmap
    /\ original = NoBitmap
    /\ processedData = NoBitmap
    /\ decoderInput = [strategy |-> 0, bitmap |-> NoBitmap]
    /\ reported = << >>
    /\ noResult = {}
    /\ faulted = {}
    /\ thrower = "none"
    /\ legible = {}
    /\ outcome = Pending
    \* no filter is called on its own
    /\ source = NoBitmap
    /\ filterFn = "none"
    /\ outputs = << >>
    \* the scanner component shows its upload screen
    /\ scannerState = initialState
    /\ task = NoTask
    /\ offered = << >>
    /\ handed = << >>

\* a call parseVCard(decodedText)
ParseVCard ==
    /\ contacts = << >>
    /\ contacts' = <<parseVCard(decodedText)>>
    /\ UNCHANGED <<decodedText, tags, parsed, notContentVars>>

NextCards == ParseVCard \/ ParseContent

(***************************************************************************)
(* A filter called by itself, then on what it returned.                    *)
(***************************************************************************)
Teal == <<10, 180, 140, 0>>

Palette == {Black, White, Red, Grey, Teal}

FilterSources ==
    { MkBitmap(FilterW, FilterH, pattern, fg, bg) :
        pattern \in Patterns, fg \in Palette, bg \in Palette }

\* the keys of preprocessingStrategies
FilterNames ==
    {"enhancedContrast", "adaptiveHistogram", "binaryThreshold",
     "sharpening", "colorInversion", "morphological"}

InitFilters ==
    /\ source \in FilterSources
    /\ filterFn = "none"
    /\ outputs = << >>
    \* no scan is running
    /\ pc = "idle"
    /\ ctx = TRUE
    /\ strategyIdx = 0
    /\ imageData = NoBitmap
    /\ original = NoBitmap
    /\ processedData = NoBitmap
    /\ decoderInput = [strategy |-> 0, bitmap |-> NoBitmap]
    /\ reported = << >>
    /\ noResult = {}
    /\ faulted = {}
    /\ thrower = "none"
    /\ legible = {}
    /\ outcome = Pending
    \* the content utilities are idle
    /\ decodedText = << >>
    /\ tags = << >>
    /\ parsed = << >>
    /\ contacts = << >>
    \* the scanner component shows its upload screen
    /\ scannerState = initialState
    /\ task = NoTask
    /\ offered = << >>
    /\ handed = << >>

\* a call preprocessingStrategies[fn](source)
CallFilter ==
    /\ outputs = << >>
    /\ \E fn \in FilterNames :
          LET r == Apply(fn, source)
          IN  /\ filterFn' = fn
              /\ source' = r.input
              /\ outputs' = <<r.output>>
    /\ UNCHANGED notFilterVars

\* the same filter called on the bitmap it returned last
CallAgain ==
    /\ outputs # << >>
    /\ Len(outputs) < MaxPasses
    /\ outputs' = Append(outputs, Apply(filterFn, outputs[Len(outputs)]).output)
    /\ UNCHANGED <<source, filterFn, notFilterVars>>

NextFilters == CallFilter \/ CallAgain

(***************************************************************************)
(* validateFile and the scanner component (scan-scanner.tsx): loadFile,    *)
(* startScanning with its two awaits, resetState, and the screen the       *)
(* component renders, which decides the handlers a user can reach.         *)
(***************************************************************************)
allowedTypes == {"image/png", "image/jpeg", "image/jpg", "image/gif"}

\* const maxSize = 10 * 1024 * 1024
maxSize == 10 * 1024 * 1024

\* a check that turns away a file of exactly maxSize bytes
validateFileBelowLimit(file) ==
    IF file.type \notin allowedTypes
    THEN [isValid |-> FALSE,
          error |-> <<"Invalid file type. Please use PNG, JPG, or GIF images.">>]
    ELSE IF file.size >= maxSize
    THEN [isValid |-> FALSE,
          error |-> <<"File size too large. Please use images smaller than 10MB.">>]
    ELSE [isValid |-> TRUE, error |-> << >>]

validateFile(file) ==
    IF file.type \notin allowedTypes
    THEN [isValid |-> FALSE,
          error |-> <<"Invalid file type. Please use PNG, JPG, or GIF images.">>]
    ELSE IF file.size > maxSize
    THEN [isValid |-> FALSE,
          error |-> <<"File size too large. Please use images smaller than 10MB.">>]
    ELSE [isValid |-> TRUE, error |-> << >>]

\* the files a user picks or drops: their MIME type and size in bytes
FileTypes == allowedTypes \cup {"image/webp", ""}
FileSizes == {0, maxSize, maxSize + 1}
Files == [type : FileTypes, size : FileSizes]

\* the texts a decoded code carries (qrResult.data)
ScannedTexts == {<<"a", "b">>, <<"t", "e", "l", ":", "1", "2">>}

\* which of its five returns the component renders
Screen(s) ==
    IF s.stage = "result" /\ s.result # << >> THEN "result"
    ELSE IF s.stage = "scanning" THEN "scanning"
    ELSE IF s.stage = "loaded" /\ s.loadedFile # << >> /\ s.imagePreview # << >>
    THEN "loaded"
    ELSE IF s.stage = "error" /\ s.error # << >> THEN "error"
    ELSE "upload"

\* the setState calls of startScanning, as functions of the previous state
Started(prev) ==
    [prev EXCEPT !.stage = "scanning", !.progress = 10,
                 !.currentStrategy = "Loading image..."]

Prepared(prev) ==
    [prev EXCEPT !.progress = 20,
                 !.currentStrategy = "Preparing image processing..."]

onProgress(prev, progress, strategy) ==
    [prev EXCEPT !.progress = Min2(progress, 95), !.currentStrategy = strategy]

Completed(prev) ==
    [prev EXCEPT !.progress = 100, !.currentStrategy = "Processing content..."]

Resulted(prev, parsedContent) ==
    [prev EXCEPT !.stage = "result", !.result = <<parsedContent>>,
                 !.progress = 100, !.currentStrategy = "Complete"]

\* an else branch that fills the progress bar before it shows the error
NoCodeFoundFilled(prev) ==
    [prev EXCEPT !.stage = "error", !.progress = 100, !.error =
        <<"No QR code found in the image. Please try a different image with better lighting and contrast.">>]

NoCodeFound(prev) ==
    [prev EXCEPT !.stage = "error", !.error =
        <<"No QR code found in the image. Please try a different image with better lighting and contrast.">>]

Failed(prev) ==
    [prev EXCEPT !.stage = "error", !.error =
        <<"Failed to process the image. Please try again with a different file.">>]

InitScanner ==
    /\ scannerState = initialState
    /\ task = NoTask
    /\ offered = << >>
    /\ handed = << >>
    \* no scan is running outside the component
    /\ pc = "idle"
    /\ ctx = TRUE
    /\ strategyIdx = 0
    /\ imageData = NoBitmap
    /\ original = NoBitmap
    /\ processedData = NoBitmap
    /\ decoderInput = [strategy |-> 0, bitmap |-> NoBitmap]
    /\ reported = << >>
    /\ noResult = {}
    /\ faulted = {}
    /\ thrower = "none"
    /\ legible = {}
    /\ outcome = Pending
    /\ decodedText = << >>
    /\ tags = << >>
    /\ parsed = << >>
    /\ contacts = << >>
    /\ source = NoBitmap
    /\ filterFn = "none"
    /\ outputs = << >>

\* a reset that keeps the file and its preview
resetStateKeepsFile ==
    /\ Screen(scannerState) \in {"loaded", "result", "error"}
    /\ scannerState' = [initialState EXCEPT
                            !.loadedFile = scannerState.loadedFile,
                            !.imagePreview = scannerState.imagePreview]
    /\ UNCHANGED <<task, offered, handed, notScannerVars>>

\* resetState, the onClick of 'Choose Different Image' and 'Try Again' and
\* the onReset of the result display
resetState ==
    /\ Screen(scannerState) \in {"loaded", "result", "error"}
    /\ scannerState' = initialState
    /\ UNCHANGED <<task, offered, handed, notScannerVars>>

\* loadFile(file), reached from the drop zone and the file input of the
\* upload screen
loadFile ==
    /\ Screen(scannerState) = "upload"
    /\ \E file \in Files :
          LET cleared    == [scannerState EXCEPT !.error = << >>]
              validation == validateFile(file)
          IN  /\ offered' = <<file>>
              /\ scannerState' =
                    IF ~validation.isValid
                    THEN [cleared EXCEPT !.stage = "error",
                                         !.error = validation.error]
                    ELSE [cleared EXCEPT !.stage = "loaded",
                                         !.loadedFile = <<file>>,
                                         !.imagePreview = <<"blob:">>]
    /\ UNCHANGED <<task, handed, notScannerVars>>

\* startScanning up to its first await, the onClick of 'Scan QR Code'
startScanning ==
    /\ Screen(scannerState) = "loaded"
    /\ scannerState.loadedFile # << >>
    /\ scannerState' = Started(scannerState)
    /\ task' = [pc |-> "load", file |-> scannerState.loadedFile, idx |-> 0,
                qrResult |-> << >>]
    /\ UNCHANGED <<offered, handed, notScannerVars>>

\* await createCanvasFromFile(state.loadedFile) resolves or rejects
CanvasCreated ==
    /\ task.pc = "load"
    /\ \E loads \in BOOLEAN :
          IF loads
          THEN /\ scannerState' = Prepared(scannerState)
               /\ task' = [task EXCEPT !.pc = "enter"]
          ELSE /\ scannerState' = Failed(scannerState)
               /\ task' = NoTask
    /\ UNCHANGED <<offered, handed, notScannerVars>>

\* the call processImage(canvas, imageData, onProgress): it throws when the
\* canvas has no context, else it begins the loop
ProcessImageCalled ==
    /\ task.pc = "enter"
    /\ handed' = task.file
    /\ \E hasCtx \in BOOLEAN :
          IF hasCtx
          THEN /\ task' = [task EXCEPT !.pc = "report", !.idx = 1]
               /\ scannerState' = scannerState
          ELSE /\ scannerState' = Failed(scannerState)
               /\ task' = NoTask
    /\ UNCHANGED <<offered, notScannerVars>>

\* processImage calls onProgress(strategy.progress, strategy.name)
ProgressReported ==
    /\ task.pc = "report"
    /\ scannerState' = onProgress(scannerState,
                                  processingStrategies[task.idx].progress,
                                  processingStrategies[task.idx].name)
    /\ task' = [task EXCEPT !.pc = "try"]
    /\ UNCHANGED <<offered, handed, notScannerVars>>

\* the strategy's filter and decoder: a result ends processImage, no result
\* (null or a swallowed fault) takes the next strategy or ends it with null
StrategyTried ==
    /\ task.pc = "try"
    /\ \E found \in BOOLEAN :
          IF found
          THEN \E text \in ScannedTexts :
                  task' = [task EXCEPT !.pc = "resolved", !.qrResult = <<text>>]
          ELSE IF task.idx < NumStrategies
          THEN task' = [task EXCEPT !.pc = "report", !.idx = task.idx + 1]
          ELSE task' = [task EXCEPT !.pc = "resolved"]
    /\ UNCHANGED <<scannerState, offered, handed, notScannerVars>>

\* after await processImage: if (qrResult) setState(progress: 100 ...)
ResultReceived ==
    /\ task.pc = "resolved"
    /\ task.qrResult # << >>
    /\ scannerState' = Completed(scannerState)
    /\ task' = [task EXCEPT !.pc = "parse"]
    /\ UNCHANGED <<offered, handed, notScannerVars>>

\* parseContent(qrResult.data) and the setState that shows the result
ResultShown ==
    /\ task.pc = "parse"
    /\ scannerState' = Resulted(scannerState, parseContent(task.qrResult[1]))
    /\ task' = NoTask
    /\ UNCHANGED <<offered, handed, notScannerVars>>

\* after await processImage: the else branch of if (qrResult)
NothingFound ==
    /\ task.pc = "resolved"
    /\ task.qrResult = << >>
    /\ scannerState' = NoCodeFound(scannerState)
    /\ task' = NoTask
    /\ UNCHANGED <<offered, handed, notScannerVars>>

NextScanner ==
    \/ loadFile
    \/ startScanning
    \/ CanvasCreated
    \/ ProcessImageCalled
    \/ ProgressReported
    \/ StrategyTried
    \/ ResultReceived
    \/ ResultShown
    \/ NothingFound
    \/ resetState

(***************************************************************************)
(* Specifications.                                                         *)
(***************************************************************************)
\* one run of processImage on a source bitmap
SpecPipeline == InitPipeline /\ [][NextPipeline]_vars

\* the content utilities on one decoded text
SpecContent == InitContent /\ [][NextContent]_vars

\* the contact-card parser and parseContent on one contact card
SpecCards == InitCards /\ [][NextCards]_vars

\* one filter called on a bitmap, then on its own output
SpecFilters == InitFilters /\ [][NextFilters]_vars

\* the scanner component from its first render on
SpecScanner == InitScanner /\ [][NextScanner]_vars

(***************************************************************************)
(* Properties of processImage.                                             *)
(***************************************************************************)
\* the order the strategies are to be tried in, with their percentages
FixedOrder ==
    << <<65, "Direct Detection">>,  <<70, "Enhanced Contrast">>,
       <<75, "Adaptive Histogram">>, <<80, "Binary Threshold">>,
       <<85, "Sharpening">>,        <<90, "Color Inversion">>,
       <<95, "Morphological">> >>

\* the filter of each strategy of the fixed order
FixedFilters ==
    << "identity", "enhancedContrast", "adaptiveHistogram", "binaryThreshold",
       "sharpening", "colorInversion", "morphological" >>

\* the bitmap strategy j makes of the bitmap processImage was called with
FilteredOriginal(j) == StrategyFn(FixedFilters[j], original)

\* strategy j could succeed: it does not fault and jsQR reads its bitmap
CouldSucceed(j) ==
    /\ j \notin faulted
    /\ StrategyFn(processingStrategies[j].fn, original) \in legible

Running == pc \in {"report", "filter", "decode", "sleep", "catch"}

\* C1: the strategies are tried strictly in the fixed order Direct (65),
\* Contrast (70), Histogram (75), Binary Threshold (80), Sharpening (85),
\* Inversion (90), Morphological (95): the reports made so far are a prefix
\* of that list, and strategy k is reported, filtered and decoded only when
\* exactly the strategies 1..k-1 have ended without a result.
C1_FixedOrder ==
    /\ Len(reported) <= 7
    /\ \A i \in 1..Len(reported) :
          /\ reported[i].progress = FixedOrder[i][1]
          /\ reported[i].strategy = FixedOrder[i][2]
    /\ pc = "report" => Len(reported) = strategyIdx - 1
    /\ pc \in {"filter", "decode", "sleep", "catch"} =>
          Len(reported) = strategyIdx
    /\ Running => noResult = 1..(strategyIdx - 1)
    /\ decoderInput.strategy # 0 =>
          /\ decoderInput.strategy <= Len(reported)
          /\ processingStrategies[decoderInput.strategy].name
                = FixedOrder[decoderInput.strategy][2]
          /\ 1..(decoderInput.strategy - 1) \subseteq noResult
    /\ pc = "done" /\ outcome.kind = "result" =>
          /\ Len(reported) = strategyIdx
          /\ noResult = 1..(strategyIdx - 1)

\* only Binary Threshold can succeed: Direct, Contrast and Histogram were
\* reported before it, without a fault, and it returned the result
C1_Witness ==
    /\ pc = "done"
    /\ outcome.kind = "result"
    /\ strategyIdx = 4
    /\ faulted = {}
    /\ legible = {binaryThreshold(original)}

\* C2: once the decoder returns a result processImage returns it at once:
\* nothing is reported, filtered or decoded after it, the loop never goes on
\* past a legible bitmap, and the strategy that returns is the earliest one
\* in list order that could succeed.
C2_FirstSuccessReturns ==
    /\ Running => outcome = Pending
    /\ pc = "sleep" => decoderInput.bitmap \notin legible
    /\ outcome.kind = "result" =>
          /\ pc = "done"
          /\ Len(reported) = strategyIdx
          /\ decoderInput.strategy = strategyIdx
          /\ processedData = decoderInput.bitmap
          /\ outcome = Found(jsQR(decoderInput.bitmap, legible))
          /\ strategyIdx \notin noResult
          /\ CouldSucceed(strategyIdx)
          /\ \A j \in 1..(strategyIdx - 1) : ~CouldSucceed(j)

\* a result was returned although a later strategy could have succeeded too
C2_Witness ==
    /\ pc = "done"
    /\ outcome.kind = "result"
    /\ \E j \in (strategyIdx + 1)..NumStrategies :
          /\ CouldSucceed(j)
          /\ FilteredOriginal(j) # decoderInput.bitmap

\* C3: a throw in onProgress, the filter or the decoder of a strategy is
\* caught at that strategy: the strategy counts as having no result, the
\* loop goes on with the next strategy in order (or returns null after the
\* last), processImage never rejects because of it, and a later strategy
\* that can succeed still returns its result.
C3_FaultsSwallowed ==
    /\ [](outcome = Rejected => ~ctx /\ faulted = {})
    /\ [](pc = "done" /\ ctx /\ (\E j \in 1..NumStrategies : CouldSucceed(j))
            => outcome.kind = "result")
    /\ [][faulted' # faulted =>
            /\ pc' = "catch"
            /\ faulted' = faulted \cup {strategyIdx}
            /\ strategyIdx' = strategyIdx]_vars
    /\ [][pc = "catch" =>
            /\ strategyIdx \in faulted
            /\ strategyIdx \in noResult'
            /\ IF strategyIdx < 7
               THEN pc' = "report" /\ strategyIdx' = strategyIdx + 1
                    /\ outcome' = Pending
               ELSE pc' = "done" /\ outcome' = Null]_vars

\* a strategy faulted and a later one returned a result
C3_Witness ==
    /\ pc = "done"
    /\ outcome.kind = "result"
    /\ faulted # {}
    /\ \A j \in faulted : j < strategyIdx

\* C4: when the canvas context exists and none of the seven strategies
\* yields a result (each returned null or faulted), processImage resolves
\* to null after exactly seven progress reports and does not reject.
C4_ExhaustedReturnsNull ==
    (pc = "done" /\ ctx /\ \A j \in 1..NumStrategies : ~CouldSucceed(j)) =>
        /\ outcome = Null
        /\ Len(reported) = 7
        /\ noResult = 1..7

\* exhaustion in which some strategies faulted and others returned null
C4_Witness ==
    /\ pc = "done"
    /\ outcome = Null
    /\ faulted # {}
    /\ faulted # 1..7
    /\ Len(reported) = 7

\* C5: filters are never composed: the bitmap handed to the decoder for
\* strategy k is filter k applied to the bitmap processImage was called
\* with, and the source bitmap's pixels are never changed.
C5_NoComposition ==
    /\ pc # "idle" => imageData = original
    /\ decoderInput.strategy # 0 =>
          decoderInput.bitmap = FilteredOriginal(decoderInput.strategy)
    /\ pc = "decode" => processedData = FilteredOriginal(strategyIdx)

\* the last strategy was decoded after earlier ones had faulted, and its
\* bitmap differs from the source
C5_Witness ==
    /\ pc = "done"
    /\ decoderInput.strategy = 7
    /\ faulted # {}
    /\ decoderInput.bitmap # original

\* C6: the percentages passed to onProgress never decrease.
C6_ProgressMonotone ==
    \A i, j \in 1..Len(reported) :
        i < j => reported[i].progress <= reported[j].progress

\* all seven reports were made in a run in which strategies faulted
C6_Witness ==
    /\ pc = "done"
    /\ Len(reported) = 7
    /\ faulted # {}

(***************************************************************************)
(* Properties of detectContentType and parseContent.                       *)
(***************************************************************************)
\* the classifier's rules in their order of precedence
RuleOrder ==
    <<"empty", "vcard", "wifi", "sms", "phone", "email", "location", "url">>

\* the rule named r is satisfied by the text raw
RuleHolds(r, raw) ==
    LET s == Trim(raw)
    IN  CASE r = "empty"    -> s = << >>
          [] r = "vcard"    -> StartsWith(s, <<"B", "E", "G", "I", "N", ":", "V", "C", "A", "R", "D">>) /\ Includes(s, <<"E", "N", "D", ":", "V", "C", "A", "R", "D">>)
          [] r = "wifi"     -> StartsWith(s, <<"W", "I", "F", "I", ":">>)
          [] r = "sms"      -> StartsWith(s, <<"S", "M", "S", "T", "O", ":">>) \/ StartsWith(s, <<"s", "m", "s", ":">>)
          [] r = "phone"    -> phonePattern(s) \/ StartsWith(s, <<"t", "e", "l", ":">>)
          [] r = "email"    -> emailPattern(s) \/ StartsWith(s, <<"m", "a", "i", "l", "t", "o", ":">>)
          [] r = "location" -> geoPattern(s)
          [] r = "url"      -> NewURL(s) \/ urlPattern(s)

\* the tag of the earliest rule raw satisfies, plain text when it satisfies none
FirstMatch(raw) ==
    IF \E i \in 1..Len(RuleOrder) : RuleHolds(RuleOrder[i], raw)
    THEN RuleOrder[CHOOSE i \in 1..Len(RuleOrder) :
            /\ RuleHolds(RuleOrder[i], raw)
            /\ \A j \in 1..(i - 1) : ~RuleHolds(RuleOrder[j], raw)]
    ELSE "text"

C8_FirstMatchWins ==
    \A i \in 1..Len(tags) : tags[i] = FirstMatch(decodedText)

\* a text that satisfies the phone rule and the web-link rule was tagged phone
C8_Witness ==
    /\ tags # << >>
    /\ tags[1] = "phone"
    /\ RuleHolds("phone", decodedText)
    /\ RuleHolds("url", decodedText)

\* the number of digits in s
RECURSIVE CountDigits(_)
CountDigits(s) ==
    IF s = << >> THEN 0
    ELSE (IF IsDigit(Head(s)) THEN 1 ELSE 0) + CountDigits(Tail(s))

\* s holds at least 10 digits, after an optional leading "+", and otherwise
\* only spaces, hyphens and parentheses
PhoneShaped(s) ==
    LET body == IF s # << >> /\ s[1] = "+" THEN Tail(s) ELSE s
    IN  /\ CountDigits(body) >= 10
        /\ \A i \in 1..Len(body) :
              IsDigit(body[i]) \/ body[i] \in {" ", "-", "(", ")"}

\* C9: a text that does not start with "tel:" is tagged phone only if it is
\* phone-shaped: at least 10 digits, an optional leading "+", and otherwise
\* only spaces, hyphens and parentheses.
C9_PhoneNeedsTenDigits ==
    \A i \in 1..Len(tags) :
        (tags[i] = "phone" /\ ~StartsWith(Trim(decodedText), <<"t", "e", "l", ":">>))
            => PhoneShaped(Trim(decodedText))

\* the type-specific pattern of a tagged payload does not match it
PatternFails(raw) ==
    LET tag == detectContentType(raw)
    IN  \/ tag = "wifi" /\ ~wifiMatch(raw).matched
        \/ tag = "location" /\ ~geoMatch(raw).matched
        \/ tag = "sms" /\ ~smsMatch(raw).matched

\* C10: every result of parseContent has the classifier's tag as its type,
\* except for a payload whose type-specific pattern does not match: that
\* result has type "text", the raw payload as display text and exactly one
\* action, a copy of the raw payload; every call returns a result.
C10_TagOrPlainText ==
    \A k \in 1..Len(parsed) :
        IF PatternFails(decodedText)
        THEN /\ parsed[k].type = "text"
             /\ parsed[k].displayText = decodedText
             /\ Len(parsed[k].actions) = 1
             /\ parsed[k].actions[1].type = "copy"
             /\ parsed[k].actions[1].value = decodedText
        ELSE parsed[k].type = detectContentType(decodedText)

\* a payload tagged wifi, with blanks around it and without the fields in
\* order, has been parsed
C10_Witness ==
    /\ Len(parsed) > 0
    /\ detectContentType(decodedText) = "wifi"
    /\ PatternFails(decodedText)
    /\ Trim(decodedText) # decodedText
    /\ parsed[1].type = "text"

(***************************************************************************)
(* Properties of parseVCard and of contact-card results.                   *)
(***************************************************************************)
\* the lines parseVCard sees in the decoded text
CardLines == VCardLines(decodedText)

\* where the first colon of a line is, 0 when it has none
ColonAt(line) == IndexOfAny(line, {":"}, 1)

\* a BEGIN, END or VERSION line, or one without a colon
Skipped(line) ==
    \/ StartsWith(line, <<"B", "E", "G", "I", "N", ":">>)
    \/ StartsWith(line, <<"E", "N", "D", ":">>)
    \/ StartsWith(line, <<"V", "E", "R", "S", "I", "O", "N", ":">>)
    \/ ColonAt(line) = 0

\* the name and the parameters before the first colon
FieldSpec(line) == SplitOn(SubSeq(line, 1, ColonAt(line) - 1), ";")

\* the field name in capitals
FieldName(line) == ToUpperCase(FieldSpec(line)[1])

\* the text after the first colon
ValueOf(line) == SubSeq(line, ColonAt(line) + 1, Len(line))

\* the lines of the field called name, in order
LinesOf(name) ==
    SelectSeq(CardLines, LAMBDA line : ~Skipped(line) /\ FieldName(line) = name)

\* p is a TYPE parameter, whatever the case of its key
IsTypeParam(p) == Len(p) >= 5 /\ ToUpperCase(SubSeq(p, 1, 5)) = <<"T", "Y", "P", "E", "=">>

\* the line carries a TYPE parameter
CarriesType(line) ==
    \E i \in 2..Len(FieldSpec(line)) : IsTypeParam(FieldSpec(line)[i])

\* the value of the first TYPE parameter of a line that carries one
RawType(line) ==
    LET spec == FieldSpec(line)
        i == CHOOSE i \in 2..Len(spec) :
                /\ IsTypeParam(spec[i])
                /\ \A j \in 2..(i - 1) : ~IsTypeParam(spec[j])
    IN  Substring(spec[i], 5)

\* the type the priority order gives a TEL line with the TYPE parameter raw
PriorityType(raw) ==
    LET types == ToLowerCase(raw)
    IN  IF Includes(types, <<"c", "e", "l", "l">>) \/ Includes(types, <<"m", "o", "b", "i", "l", "e">>) THEN <<"m", "o", "b", "i", "l", "e">>
        ELSE IF Includes(types, <<"w", "o", "r", "k">>) THEN <<"w", "o", "r", "k">>
        ELSE IF Includes(types, <<"h", "o", "m", "e">>) THEN <<"h", "o", "m", "e">>
        ELSE IF Includes(types, <<"f", "a", "x">>) THEN <<"f", "a", "x">>
        ELSE SplitOn(raw, ",")[1]

\* C11: the k-th phone entry of a contact has, when the k-th TEL line carries
\* a TYPE parameter, the type the priority order mobile, work, home, fax
\* gives, and else the first comma-separated token of the raw parameter.
C11_TelTypePriority ==
    \A n \in 1..Len(contacts) :
        LET tel == LinesOf(<<"T", "E", "L">>)
            phones == contacts[n].phones.items
        IN  \A k \in 1..Len(tel) :
                CarriesType(tel[k]) =>
                    /\ k <= Len(phones)
                    /\ phones[k].type = PriorityType(RawType(tel[k]))

\* C12: the k-th phone entry has type "phone" when the k-th TEL line has no
\* TYPE parameter, and its call action is labelled without a type suffix.
C12_TelWithoutTypeIsPhone ==
    LET tel == LinesOf(<<"T", "E", "L">>)
    IN  \A k \in 1..Len(tel) :
            ~CarriesType(tel[k]) =>
                /\ \A n \in 1..Len(contacts) :
                        contacts[n].phones.items[k].type = <<"p", "h", "o", "n", "e">>
                /\ \A n \in 1..Len(parsed) :
                        parsed[n].actions[k].label = <<"C", "a", "l", "l", " ">> \o ValueOf(tel[k])

\* the line with the key of every TYPE parameter written in capitals
UpperTypeKey(line) ==
    IF ColonAt(line) = 0 THEN line
    ELSE LET spec == FieldSpec(line)
             respelt == [i \in 1..Len(spec) |->
                            IF i > 1 /\ IsTypeParam(spec[i])
                            THEN <<"T", "Y", "P", "E", "=">> \o Substring(spec[i], 5)
                            ELSE spec[i]]
         IN  Join(respelt, <<";">>) \o SubSeq(line, ColonAt(line), Len(line))

\* C13: the contact is the one parseVCard gives when every TYPE key of the
\* text is spelt TYPE: the case of the key changes no entry's type.
C13_TypeKeyAnyCase ==
    \A n \in 1..Len(contacts) :
        contacts[n] =
            ParseLines(EmptyContact,
                       [i \in 1..Len(CardLines) |-> UpperTypeKey(CardLines[i])], 1)

\* C14: each of the lists emails, phones, addresses and urls of a contact
\* parseVCard returned is absent or has at least one entry.
C14_ListsAbsentOrNonEmpty ==
    \A n \in 1..Len(contacts) :
        \A list \in {contacts[n].emails, contacts[n].phones,
                     contacts[n].addresses, contacts[n].urls} :
            list.present => Len(list.items) > 0

\* a card with TEL lines and no EMAIL line has been parsed: phones is there,
\* emails is not
C14_Witness ==
    /\ Len(contacts) > 0
    /\ Len(LinesOf(<<"T", "E", "L">>)) > 1
    /\ contacts[1].phones.present
    /\ Len(contacts[1].phones.items) > 1
    /\ ~contacts[1].emails.present

\* the value of the last line of the field called name, if there is one
LastOf(name) ==
    LET lines == LinesOf(name)
    IN  IF lines = << >> THEN Undefined ELSE Some(ValueOf(lines[Len(lines)]))

\* the i-th semicolon-separated component of the last N line, if non-empty
LastNameComponent(i) ==
    IF LastOf(<<"N">>).has
    THEN OrUndefined(ItemAt(SplitOn(LastOf(<<"N">>).v, ";"), i))
    ELSE Undefined

\* the values of the lines of the field called name, in order
ValuesOf(name) ==
    [k \in 1..Len(LinesOf(name)) |-> ValueOf(LinesOf(name)[k])]

\* C15: in a contact parseVCard returned, the formatted name, the
\* organization name, the title and the note are the values of the last FN,
\* ORG, TITLE and NOTE line (absent without such a line), whatever other
\* lines there are; the name components are those of the last N line; and
\* the emails, phones, addresses and urls are, entry by entry and in order,
\* those of the EMAIL, TEL, ADR and URL lines.
C15_OverwriteAndAppend ==
    \A n \in 1..Len(contacts) :
        LET c == contacts[n]
        IN  /\ c.name.formatted = LastOf(<<"F", "N">>)
            /\ c.name.family = LastNameComponent(1)
            /\ c.name.given = LastNameComponent(2)
            /\ c.name.prefix = LastNameComponent(4)
            /\ c.name.suffix = LastNameComponent(5)
            /\ c.organization.name = LastOf(<<"O", "R", "G">>)
            /\ c.organization.title = LastOf(<<"T", "I", "T", "L", "E">>)
            /\ c.notes = LastOf(<<"N", "O", "T", "E">>)
            /\ [k \in 1..Len(c.emails.items) |-> c.emails.items[k].value]
                 = ValuesOf(<<"E", "M", "A", "I", "L">>)
            /\ [k \in 1..Len(c.phones.items) |-> c.phones.items[k].value]
                 = ValuesOf(<<"T", "E", "L">>)
            /\ [k \in 1..Len(c.urls.items) |-> c.urls.items[k].value]
                 = ValuesOf(<<"U", "R", "L">>)
            /\ [k \in 1..Len(c.addresses.items) |-> c.addresses.items[k].street]
                 = [k \in 1..Len(LinesOf(<<"A", "D", "R">>)) |->
                      OrUndefined(ItemAt(SplitOn(ValuesOf(<<"A", "D", "R">>)[k], ";"), 3))]

\* a card with two different FN lines and then an N line has been parsed: the
\* second FN value stands and the N line has left it alone
C15_Witness ==
    /\ Len(contacts) > 0
    /\ Len(LinesOf(<<"F", "N">>)) = 2
    /\ ValuesOf(<<"F", "N">>)[1] # ValuesOf(<<"F", "N">>)[2]
    /\ FieldName(CardLines[Len(CardLines) - 1]) = <<"N">>
    /\ contacts[1].name.formatted = Some(ValuesOf(<<"F", "N">>)[2])
    /\ contacts[1].name.given.has

\* the field names parseVCard has a case for
MappedNames ==
    {<<"F", "N">>, <<"N">>, <<"E", "M", "A", "I", "L">>, <<"T", "E", "L">>, <<"O", "R", "G">>, <<"T", "I", "T", "L", "E">>, <<"A", "D", "R">>, <<"U", "R", "L">>, <<"N", "O", "T", "E">>}

\* the lines that go to unmappedFields, in order
UnmappedLines ==
    SelectSeq(CardLines,
              LAMBDA line : ~Skipped(line) /\ FieldName(line) \notin MappedNames)

\* the key an unmapped line is stored under
KeyOf(line) == ToLowerCase(FieldSpec(line)[1])

\* C16: unmappedFields of a contact parseVCard returned has exactly the
\* lowercased names of the lines with other field names as keys, each with
\* the text after the first colon of the last line of that name; and the
\* lines without a colon change nothing: the contact is that of the text
\* without them.
C16_UnmappedFieldsStored ==
    \A n \in 1..Len(contacts) :
        LET fields == contacts[n].unmappedFields
            withColon == SelectSeq(CardLines, LAMBDA line : ColonAt(line) > 0)
        IN  /\ DOMAIN fields = {KeyOf(UnmappedLines[k]) : k \in 1..Len(UnmappedLines)}
            /\ \A k \in 1..Len(UnmappedLines) :
                  (\A j \in (k + 1)..Len(UnmappedLines) :
                        KeyOf(UnmappedLines[j]) # KeyOf(UnmappedLines[k]))
                  => fields[KeyOf(UnmappedLines[k])] = ValueOf(UnmappedLines[k])
            /\ contacts[n] = ParseLines(EmptyContact, withColon, 1)

\* the label of the call action of a phone entry, with or without the suffix
CallLabel(phone, suffixed) ==
    <<"C", "a", "l", "l", " ">> \o phone.value
      \o (IF suffixed THEN <<" ", "(">> \o phone.type \o <<")">> ELSE << >>)

\* the actions of a contact-card result are the call actions of the phone
\* entries in order, suffixed when the type is not "phone" and, unless
\* emptySuffixed, not empty; then an email action for the first email entry
\* if there is one; then a copy action with the payload
CardActionsAre(result, emptySuffixed) ==
    LET phones == result.data.phones.items
        emails == result.data.emails.items
        actions == result.actions
        np == Len(phones)
        ne == IF Len(emails) > 0 THEN 1 ELSE 0
    IN  /\ Len(actions) = np + ne + 1
        /\ \A k \in 1..np :
              /\ actions[k].type = "call"
              /\ actions[k].value = phones[k].value
              /\ actions[k].label =
                    CallLabel(phones[k],
                              /\ phones[k].type # <<"p", "h", "o", "n", "e">>
                              /\ (emptySuffixed \/ phones[k].type # << >>))
        /\ ne = 1 =>
              /\ actions[np + 1].type = "email"
              /\ actions[np + 1].value = emails[1].value
        /\ actions[np + ne + 1].type = "copy"
        /\ actions[np + ne + 1].value = decodedText

\* C17 as stated: the call label has the suffix exactly when the type of the
\* phone entry is not "phone".
C17_CardActionsAsStated ==
    \A n \in 1..Len(parsed) :
        parsed[n].type = "vcard" => CardActionsAre(parsed[n], TRUE)

\* C17, amended: the actions of a contact-card result are one call action
\* per phone entry in order, labelled with the suffix exactly when the type
\* is neither empty nor "phone", then one email action for the first email
\* entry if there is one, then one copy action with the whole payload.
C17_CardActions ==
    \A n \in 1..Len(parsed) :
        parsed[n].type = "vcard" => CardActionsAre(parsed[n], FALSE)

\* a card with a phone of empty type, a phone of another type and an email
\* has been parsed into four actions
C17_Witness ==
    /\ Len(parsed) > 0
    /\ parsed[1].type = "vcard"
    /\ Len(parsed[1].data.phones.items) = 2
    /\ parsed[1].data.phones.items[1].type = << >>
    /\ parsed[1].data.phones.items[2].type = <<"m", "o", "b", "i", "l", "e">>
    /\ Len(parsed[1].data.emails.items) = 1
    /\ Len(parsed[1].actions) = 4

(***************************************************************************)
(* Properties of the actions of parseContent.                              *)
(***************************************************************************)
\* the payload, blanks around it aside, begins with a scheme and "//"
CarriesScheme(raw) ==
    LET s == Trim(raw)
        p == SchemeEnd(s)
    IN  p > 0 /\ OccursAt(s, <<"/", "/">>, p + 1)

\* C18: the result for a payload tagged url has an open action whose value
\* is the payload itself when the payload carries a scheme and "https://"
\* followed by the payload when it carries none, and then a copy action
\* whose value is the payload.
C18_OpenKeepsScheme ==
    \A n \in 1..Len(parsed) :
        parsed[n].type = "url" =>
            /\ Len(parsed[n].actions) = 2
            /\ parsed[n].actions[1].type = "open"
            /\ parsed[n].actions[1].value =
                  IF CarriesScheme(decodedText) THEN decodedText
                  ELSE <<"h", "t", "t", "p", "s", ":", "/", "/">> \o decodedText
            /\ parsed[n].actions[2].type = "copy"
            /\ parsed[n].actions[2].value = decodedText

\* s without the prefix when it begins with it
WithoutPrefix(s, prefix) ==
    IF StartsWith(s, prefix) THEN Substring(s, Len(prefix)) ELSE s

\* the actions have these types, in this order, and all carry a value that
\* is, blanks around it aside, the payload without the prefix
ActionsCarry(result, types, prefix) ==
    /\ [k \in 1..Len(result.actions) |-> result.actions[k].type] = types
    /\ \A k \in 1..Len(result.actions) :
          /\ result.actions[k].value = result.actions[1].value
          /\ Trim(result.actions[k].value)
               = Trim(WithoutPrefix(Trim(decodedText), prefix))

\* C19: the result for a payload tagged phone has a call, an sms and a copy
\* action that all carry the number without its leading "tel:", and the
\* result for a payload tagged email has an email and a copy action that
\* carry the address without its leading "mailto:", also when blanks come
\* before the prefix.
C19_PrefixRemoved ==
    \A n \in 1..Len(parsed) :
        /\ parsed[n].type = "phone" =>
              ActionsCarry(parsed[n], <<"call", "sms", "copy">>, <<"t", "e", "l", ":">>)
        /\ parsed[n].type = "email" =>
              ActionsCarry(parsed[n], <<"email", "copy">>, <<"m", "a", "i", "l", "t", "o", ":">>)

\* the sms-draft payload without the blanks before it
SmsDraft ==
    LET lead == CHOOSE i \in 1..Len(decodedText) :
                    /\ ~IsSpace(decodedText[i])
                    /\ \A j \in 1..(i - 1) : IsSpace(decodedText[j])
    IN  SubSeq(decodedText, lead, Len(decodedText))

\* the payload after its prefix SMSTO: or sms:
SmsAfterPrefix ==
    IF StartsWith(SmsDraft, <<"S", "M", "S", "T", "O", ":">>) THEN Substring(SmsDraft, 6)
    ELSE Substring(SmsDraft, 4)

\* where the first ":" or "?" after the prefix is, 0 when there is none
SmsDelimiter == IndexOfAny(SmsAfterPrefix, {":", "?"}, 1)

\* the trimmed text between the prefix and the delimiter
SmsNumber ==
    Trim(IF SmsDelimiter = 0 THEN SmsAfterPrefix
         ELSE SubSeq(SmsAfterPrefix, 1, SmsDelimiter - 1))

\* the text after the delimiter, empty without one
SmsMessage ==
    IF SmsDelimiter = 0 THEN << >>
    ELSE SubSeq(SmsAfterPrefix, SmsDelimiter + 1, Len(SmsAfterPrefix))

\* C20: the result for a payload tagged sms has the trimmed text between the
\* prefix and the first ":" or "?" as number, the text after that delimiter
\* as message, an sms action whose value is "sms:", that number and, when
\* the message is not empty, "?body=" and the percent-encoded message, and
\* a copy action with the payload.
C20_SmsDraft ==
    \A n \in 1..Len(parsed) :
        parsed[n].type = "sms" =>
            /\ parsed[n].data.number = SmsNumber
            /\ parsed[n].data.message = SmsMessage
            /\ Len(parsed[n].actions) = 2
            /\ parsed[n].actions[1].type = "sms"
            /\ parsed[n].actions[1].value =
                  <<"s", "m", "s", ":">> \o SmsNumber
                    \o (IF SmsMessage # << >>
                        THEN <<"?", "b", "o", "d", "y", "=">> \o encodeURIComponent(SmsMessage)
                        ELSE << >>)
            /\ parsed[n].actions[2].type = "copy"
            /\ parsed[n].actions[2].value = decodedText

\* the display text of a text result as C21 has it
TextDisplay ==
    IF Len(decodedText) <= 100 THEN decodedText
    ELSE SubSeq(decodedText, 1, 100) \o <<".", ".", ".">>

\* C21 as stated: every result of type "text" has the payload as display
\* text when the payload has at most 100 characters and else its first 100
\* characters and "...", so at most 103 characters.
C21_TextResultsTruncated ==
    \A n \in 1..Len(parsed) :
        parsed[n].type = "text" =>
            /\ parsed[n].displayText = TextDisplay
            /\ Len(parsed[n].displayText) <= 103

\* C21, amended: every result for a payload that detectContentType tags
\* "text" has the payload as display text when the payload has at most 100
\* characters and else its first 100 characters and "...", so at most 103
\* characters; a result of type "text" for a payload with another tag
\* has the whole payload as display text.
C21_TextTagTruncated ==
    \A n \in 1..Len(parsed) :
        parsed[n].type = "text" =>
            IF detectContentType(decodedText) = "text"
            THEN /\ parsed[n].displayText = TextDisplay
                 /\ Len(parsed[n].displayText) <= 103
            ELSE parsed[n].displayText = decodedText

\* a payload of more than 100 characters tagged "text" has been parsed and
\* shows as 103 characters
C21_Witness ==
    /\ Len(parsed) > 0
    /\ Len(decodedText) > 100
    /\ detectContentType(decodedText) = "text"
    /\ parsed[1].type = "text"
    /\ Len(parsed[1].displayText) = 103

(***************************************************************************)
(* Properties of the filters.                                              *)
(***************************************************************************)
\* the bitmap the k-th call of the filter was given
PassInput(k) == IF k = 1 THEN source ELSE outputs[k - 1]

\* C22: each of the six filters returns a bitmap of the width and height of
\* its input, with width * height * 4 bytes of data, and with every alpha
\* byte equal to the input's
C22_SizeAndAlphaKept ==
    \A k \in 1..Len(outputs) :
        LET in  == PassInput(k)
            out == outputs[k]
        IN  /\ out.width = in.width
            /\ out.height = in.height
            /\ Len(out.data) = out.width * out.height * 4
            /\ \A p \in 1..(out.width * out.height) :
                   out.data[4 * p] = in.data[4 * p]

\* a filter has changed a bitmap that has pixels which are not opaque
C22_Witness ==
    /\ outputs # << >>
    /\ filterFn = "colorInversion"
    /\ outputs[1].data # source.data
    /\ \E p \in 1..(source.width * source.height) :
           source.data[4 * p] \notin {0, 255}

\* the luma of the p-th pixel (p from 1) of a bitmap
PixelLuma(bitmap, p) ==
    Luma(bitmap.data[4 * p - 3], bitmap.data[4 * p - 2], bitmap.data[4 * p - 1])

RECURSIVE LumaOfFirst(_, _)
\* the sum of the lumas of the first n pixels of a bitmap
LumaOfFirst(bitmap, n) ==
    IF n = 0 THEN 0 ELSE PixelLuma(bitmap, n) + LumaOfFirst(bitmap, n - 1)

\* the pixel's luma is strictly greater than the mean luma of the bitmap
AboveMean(bitmap, p) ==
    LET n == bitmap.width * bitmap.height
    IN  PixelLuma(bitmap, p) * n > LumaOfFirst(bitmap, n)

\* C23: the binary-threshold filter gives every pixel R = G = B = 255 where
\* its luma is strictly greater than the mean luma of the input and
\* R = G = B = 0 elsewhere, so a bitmap of uniform luma becomes all 0; called
\* on its own output it returns that output
C23_ThresholdTwoValued ==
    filterFn = "binaryThreshold" =>
        /\ \A k \in 1..Len(outputs) :
              LET in  == PassInput(k)
                  out == outputs[k]
              IN  \A p \in 1..(in.width * in.height) :
                      LET v == IF AboveMean(in, p) THEN 255 ELSE 0
                      IN  /\ out.data[4 * p - 3] = v
                          /\ out.data[4 * p - 2] = v
                          /\ out.data[4 * p - 1] = v
        /\ \A k \in 2..Len(outputs) : outputs[k] = outputs[k - 1]
        /\ (/\ outputs # << >>
            /\ \A p, q \in 1..(source.width * source.height) :
                   PixelLuma(source, p) = PixelLuma(source, q))
           => \A p \in 1..(source.width * source.height) :
                  PixelLuma(outputs[1], p) = 0

\* the filter has been called on a bitmap with pixels on both sides of the
\* mean, and then on its own output
C23_Witness ==
    /\ filterFn = "binaryThreshold"
    /\ Len(outputs) >= 2
    /\ \E p, q \in 1..(source.width * source.height) :
           /\ outputs[1].data[4 * p - 3] = 0
           /\ outputs[1].data[4 * q - 3] = 255
    /\ outputs[1] # source

\* the number (from 1) of the pixel in column x and row y of a bitmap
PixelNo(bitmap, x, y) == y * bitmap.width + x + 1

\* the pixel in column x and row y is on the first or last row or column
OnBorder(bitmap, x, y) ==
    \/ x = 0 \/ x = bitmap.width - 1
    \/ y = 0 \/ y = bitmap.height - 1

\* the lumas of the 3x3 neighbourhood of the pixel (x, y) in a bitmap
NeighbourLumas(bitmap, x, y) ==
    { PixelLuma(bitmap, PixelNo(bitmap, x + dx, y + dy)) :
        dx \in {-1, 0, 1}, dy \in {-1, 0, 1} }

Least(S) == CHOOSE m \in S : \A n \in S : m <= n

\* the three colour bytes of the p-th pixel
Colour(bitmap, p) ==
    <<bitmap.data[4 * p - 3], bitmap.data[4 * p - 2], bitmap.data[4 * p - 1]>>

\* C24: the erosion filter gives every interior pixel R = G = B = the least
\* luma of its 3x3 neighbourhood in the input bitmap as it was when the
\* filter was called, and leaves every border pixel as it was
C24_ErosionFromSnapshot ==
    filterFn = "morphological" =>
        \A k \in 1..Len(outputs) :
            LET in  == PassInput(k)
                out == outputs[k]
            IN  \A x \in 0..(in.width - 1), y \in 0..(in.height - 1) :
                    LET p == PixelNo(in, x, y)
                    IN  IF OnBorder(in, x, y)
                        THEN Colour(out, p) = Colour(in, p)
                        ELSE LET min == Least(NeighbourLumas(in, x, y))
                             IN  Colour(out, p) = <<min, min, min>>

\* the filter has eroded a bitmap on which reading the pixels eroded
\* earlier in the pass would have given another result
C24_Witness ==
    /\ filterFn = "morphological"
    /\ outputs # << >>
    /\ outputs[1] # source
    /\ outputs[1] # morphologicalInPlace(source)

\* the pixel (nx, ny) is an interior pixel that the row-major loop over the
\* interior visits before the pixel (x, y)
VisitedBefore(bitmap, nx, ny, x, y) ==
    /\ ~OnBorder(bitmap, nx, ny)
    /\ (ny < y \/ (ny = y /\ nx < x))

\* channel c (1..3) of the pixel (nx, ny) as the kernel sum for (x, y) reads
\* it: sharpened already if visited before, else as in the input
ReadBy(in, out, nx, ny, x, y, c) ==
    IF VisitedBefore(in, nx, ny, x, y)
    THEN Colour(out, PixelNo(in, nx, ny))[c]
    ELSE Colour(in, PixelNo(in, nx, ny))[c]

\* 9 times the centre minus the eight neighbours, each as read
MixedSum(in, out, x, y, c) ==
    LET V(dx, dy) == ReadBy(in, out, x + dx, y + dy, x, y, c)
    IN  9 * V(0, 0)
        - V(-1, -1) - V(0, -1) - V(1, -1)
        - V(-1, 0)             - V(1, 0)
        - V(-1, 1)  - V(0, 1)  - V(1, 1)

Clamped(v) == IF v < 0 THEN 0 ELSE IF v > 255 THEN 255 ELSE v

\* C29: the sharpen filter leaves every border pixel as it was and gives
\* every channel of an interior pixel the kernel sum, clamped to 0..255, of
\* the already sharpened values of the interior pixels visited before it
\* (row above, left neighbour) and the input values of the others; so the
\* first interior pixel is the clamped convolution of the input
C29_SharpenInPlace ==
    filterFn = "sharpening" =>
        \A k \in 1..Len(outputs) :
            LET in  == PassInput(k)
                out == outputs[k]
            IN  \A x \in 0..(in.width - 1), y \in 0..(in.height - 1) :
                    LET p == PixelNo(in, x, y)
                    IN  IF OnBorder(in, x, y)
                        THEN Colour(out, p) = Colour(in, p)
                        ELSE \A c \in 1..3 :
                               /\ Colour(out, p)[c] \in 0..255
                               /\ Colour(out, p)[c] =
                                     Clamped(MixedSum(in, out, x, y, c))
                               /\ (x = 1 /\ y = 1) =>
                                     Colour(out, p)[c] =
                                        Clamped(MixedSum(in, in, x, y, c))

\* the filter has sharpened a bitmap of which an interior pixel of the
\* first row and one of the second row came out other than the clamped
\* convolution of the input
C29_Witness ==
    /\ filterFn = "sharpening"
    /\ outputs # << >>
    /\ \E x, z \in 1..(source.width - 2) :
          /\ Colour(outputs[1], PixelNo(source, x, 1)) #
                Colour(sharpeningFromSnapshot(source), PixelNo(source, x, 1))
          /\ Colour(outputs[1], PixelNo(source, z, 2)) #
                Colour(sharpeningFromSnapshot(source), PixelNo(source, z, 2))

(***************************************************************************)
(* Properties of processImage when the progress callback throws.           *)
(***************************************************************************)
\* C28: a throw of onProgress at a strategy is caught at that strategy:
\* neither the filter nor the decoder is called for it (the filtered bitmap
\* and the decoder's last input stay those of an earlier strategy), the
\* loop goes on with the next strategy in order, and processImage still
\* resolves to a result or to null
C28_ProgressFaultSkipsStrategy ==
    /\ [](thrower = "onProgress" =>
            /\ pc = "catch"
            /\ strategyIdx \in faulted
            /\ Len(reported) = strategyIdx
            /\ decoderInput.strategy < strategyIdx)
    /\ [](pc = "done" /\ ctx => outcome.kind \in {"result", "null"})
    /\ [][thrower' = "onProgress" =>
            /\ pc = "report"
            /\ UNCHANGED <<strategyIdx, imageData, processedData,
                           decoderInput, outcome>>]_vars
    /\ [][thrower = "onProgress" =>
            /\ UNCHANGED <<imageData, processedData, decoderInput>>
            /\ strategyIdx \in noResult'
            /\ IF strategyIdx < NumStrategies
               THEN /\ pc' = "report"
                    /\ strategyIdx' = strategyIdx + 1
                    /\ outcome' = Pending
               ELSE /\ pc' = "done"
                    /\ outcome' = Null]_vars

\* onProgress threw at the third strategy, after the second strategy's
\* bitmap had gone to the decoder
C28_Witness ==
    /\ thrower = "onProgress"
    /\ strategyIdx = 3
    /\ decoderInput.strategy = 2
    /\ processedData = decoderInput.bitmap

(***************************************************************************)
(* Properties of validateFile and the scanner component.                   *)
(***************************************************************************)
\* the file is of one of the four image types and of at most 10 MiB
Acceptable(file) ==
    /\ file.type \in {"image/png", "image/jpeg", "image/jpg", "image/gif"}
    /\ file.size <= 10485760

\* C25: validateFile accepts a file exactly when its type is image/png,
\* image/jpeg, image/jpg or image/gif and its size is at most 10 MiB; a
\* rejected file takes the scanner to the error stage with a message that
\* is not empty, is never the loaded file of the loaded or scanning stage
\* and is never the file of a processImage call
C25_OnlyValidFilesScanned ==
    /\ [](offered # << >> =>
            (validateFile(offered[1]).isValid <=> Acceptable(offered[1])))
    /\ [](scannerState.stage \in {"loaded", "scanning"} =>
            /\ scannerState.loadedFile # << >>
            /\ Acceptable(scannerState.loadedFile[1]))
    /\ [](task.file # << >> => Acceptable(task.file[1]))
    /\ [](handed # << >> => Acceptable(handed[1]))
    /\ [][Screen(scannerState) = "upload" =>
            /\ offered' # << >>
            /\ IF Acceptable(offered'[1])
               THEN /\ scannerState'.stage = "loaded"
                    /\ scannerState'.loadedFile = offered'
               ELSE /\ scannerState'.stage = "error"
                    /\ scannerState'.error # << >>
                    /\ scannerState'.error[1] # ""
                    /\ scannerState'.loadedFile = << >>
                    /\ UNCHANGED <<task, handed>>]_vars

\* a file of an allowed type and one byte over 10 MiB was turned away after
\* an earlier file had been scanned
C25_Witness ==
    /\ scannerState.stage = "error"
    /\ offered # << >>
    /\ offered[1].type = "image/png"
    /\ offered[1].size = maxSize + 1
    /\ handed # << >>
    /\ task = NoTask

\* processImage has been called and has not yet returned
InProcessImage == task.pc \in {"report", "try"}

\* C26: during a scan the progress never decreases: it is 10 at the start,
\* 20 once the image is loaded, at most 95 while processImage runs, and 100
\* only once processImage has returned a result; when processImage returns
\* null or rejects, the stage becomes error and progress stays below 100
C26_ProgressMonotone ==
    /\ [][(scannerState.stage = "scanning" \/ scannerState'.stage = "scanning")
            => scannerState'.progress >= scannerState.progress]_vars
    /\ [][task.pc = "idle" /\ task'.pc = "load"
            => scannerState'.progress = 10]_vars
    /\ [][task.pc = "load" /\ task'.pc = "enter"
            => scannerState'.progress = 20]_vars
    /\ [](task.pc \in {"load", "enter"} \/ InProcessImage
            => scannerState.progress <= 95)
    /\ [](scannerState.progress = 100 =>
            \/ task.pc = "parse" /\ task.qrResult # << >>
            \/ scannerState.stage = "result" /\ scannerState.result # << >>)
    /\ [][(\/ task.pc = "resolved" /\ task.qrResult = << >>
           \/ task.pc \in {"load", "enter"} /\ task'.pc = "idle")
            => /\ scannerState'.stage = "error"
               /\ scannerState'.progress < 100]_vars
    /\ [](scannerState.stage = "error" => scannerState.progress < 100)

\* processImage went through all its strategies and returned null: the
\* error is shown with the progress of the last report
C26_Witness ==
    /\ scannerState.stage = "error"
    /\ scannerState.progress = 95
    /\ scannerState.currentStrategy = "Morphological"
    /\ handed # << >>
    /\ task = NoTask

\* the values of the fields before the first file is loaded
FirstRender(s) ==
    /\ s.stage = "upload"
    /\ s.progress = 0
    /\ s.currentStrategy = ""
    /\ s.result = << >>
    /\ s.error = << >>
    /\ s.loadedFile = << >>
    /\ s.imagePreview = << >>

\* C27: in every state of the scanner component, stage 'result' comes with a
\* result and no error, stage 'error' with an error, stages 'loaded' and
\* 'scanning' with a loaded file; and resetState (the only handler of the
\* result and error screens, and the one of the loaded screen that does not
\* start a scan) puts every field back to its first value
C27_StageInvariants ==
    /\ [](scannerState.stage = "result" =>
            scannerState.result # << >> /\ scannerState.error = << >>)
    /\ [](scannerState.stage = "error" => scannerState.error # << >>)
    /\ [](scannerState.stage \in {"loaded", "scanning"} =>
            scannerState.loadedFile # << >>)
    /\ [][scannerState.stage \in {"result", "error"}
            => FirstRender(scannerState')]_vars
    /\ [][scannerState.stage = "loaded" /\ scannerState'.stage # "scanning"
            => FirstRender(scannerState')]_vars

\* the component is back at its first render after a scan
C27_Witness ==
    /\ FirstRender(scannerState)
    /\ handed # << >>
    /\ offered = handed
    /\ task = NoTask

====
